---------------------------- MODULE Spec2Model ----------------------------
(***************************************************************************)
(* Orchestration layer of the Triton Spark TTS + RVC server:               *)
(*   - OrderedAudioBufferQueue   (rvc/processing/buffer_queue.py)          *)
(*   - RVCServer worker pool     (rvc/server/rvc_server.py)                *)
(*   - WorkerManager             (rvc/processing/worker_manager.py,        *)
(*                                rvc/processing/workers.py)               *)
(*   - TTSRVCPipeline            (rvc/processing/pipeline.py)              *)
(* Each component has its own specification (SpecBuf, SpecPool, SpecMgr,   *)
(* SpecPipe); the variables of the other components stay at their idle     *)
(* values.  Time is counted in whole seconds.                              *)
(***************************************************************************)
EXTENDS Integers, Sequences, FiniteSets, TLC

\* Python's None, where the other values are strings
None == "None"
\* Python's None, where the other values are times
NoTime == -1

(***************************************************************************)
(*                      OrderedAudioBufferQueue                            *)
(***************************************************************************)
VARIABLES
    queue,                \* self.queue: list of (file_path, duration)
    current_file,         \* self.current_file
    current_duration,     \* self.current_duration
    playback_start_time,  \* self.playback_start_time
    buffer_time,          \* self.buffer_time
    pending_files,        \* self.pending_files: {position: (file_path, duration)}
    next_position,        \* self.next_position
    clock,                \* time.time()
    nAdds,                \* history: number of add_with_position calls
    added,                \* history: the positions add_with_position was called with
    dupAdd,               \* history: some position was added twice
    heldBack,             \* history: the positions that had to wait in pending_files
    returned,             \* history: the non-None values get_next has returned
    cleared               \* history: clear() has been called

bufVars == <<queue, current_file, current_duration, playback_start_time, buffer_time,
             pending_files, next_position, clock, nAdds, added, dupAdd, heldBack,
             returned, cleared>>

\* positions 0 .. MaxPos-1 are used by the callers
MaxPos == 3
\* number of add_with_position calls in one run
MaxAdds == 3
\* the clock runs from 0 to MaxClock
MaxClock == 2
\* the buffer margin is chosen from 0 .. MaxBufferTime at construction
MaxBufferTime == 1
\* a readable file has a duration of 0 .. MaxFileDuration seconds
MaxFileDuration == 1
\* duration used when the audio file cannot be read
DefaultDuration == 2

Positions == 0 .. (MaxPos - 1)
\* the audio file of the fragment at position p (fragment_<p>.wav)
PathOf(p) == <<"A", "B", "C", "D", "E", "F">>[p + 1]

\* the fields of the buffer as one value, for the methods that call each other
BufState == [queue |-> queue, current_file |-> current_file,
             current_duration |-> current_duration,
             playback_start_time |-> playback_start_time,
             pending_files |-> pending_files, next_position |-> next_position]

\* the duration add_with_position stores: the file's own duration when it
\* exists and can be read, the default when reading raises, 0 when it does
\* not exist
StoredDuration(exists, readable, fileDur) ==
    IF exists
    THEN IF readable THEN fileDur ELSE DefaultDuration
    ELSE 0

\* what add_with_position can find on disk: no file, a file that soundfile
\* cannot read, a readable file of some duration
FileStates ==
    {[exists |-> FALSE, readable |-> FALSE, fileDur |-> 0],
     [exists |-> TRUE, readable |-> FALSE, fileDur |-> 0]}
    \cup {[exists |-> TRUE, readable |-> TRUE, fileDur |-> d] : d \in 0 .. MaxFileDuration}

\* {}
EmptyDict == [x \in {} |-> None]
\* dict.pop(k)
DictPop(d, k) == [x \in (DOMAIN d) \ {k} |-> d[x]]
\* d[k] = v
DictPut(d, k, v) == [x \in (DOMAIN d) \cup {k} |-> IF x = k THEN v ELSE d[x]]

\* a plausible slip: the lowest pending position is released although lower
\* positions are still missing
RECURSIVE MoveLowestPendingToQueue(_)
MoveLowestPendingToQueue(b) ==
    IF DOMAIN b.pending_files = {}
    THEN b
    ELSE LET k == CHOOSE x \in DOMAIN b.pending_files :
                      \A y \in DOMAIN b.pending_files : x <= y
         IN MoveLowestPendingToQueue(
                [b EXCEPT !.queue = Append(@, b.pending_files[k]),
                          !.pending_files = DictPop(@, k),
                          !.next_position = k + 1])

RECURSIVE MoveNextPendingToQueue(_)
MoveNextPendingToQueue(b) ==
    IF b.next_position \in DOMAIN b.pending_files
    THEN MoveNextPendingToQueue(
             [b EXCEPT !.queue = Append(@, b.pending_files[b.next_position]),
                       !.pending_files = DictPop(@, b.next_position),
                       !.next_position = @ + 1])
    ELSE b

\* a plausible slip: the ready queue is read from its end (pop() for pop(0))
BaseGetNextFromEnd(b, t) ==
    LET playing == b.current_file # None /\ b.playback_start_time # NoTime
        elapsed_time == t - b.playback_start_time
        effective_duration == b.current_duration + buffer_time
    IN IF playing /\ elapsed_time < effective_duration
       THEN [b |-> b, result |-> None]
       ELSE LET b1 == IF playing THEN [b EXCEPT !.current_file = None] ELSE b
                n == Len(b1.queue)
            IN IF b1.current_file = None /\ b1.queue # <<>>
               THEN [b |-> [b1 EXCEPT !.queue = SubSeq(@, 1, n - 1),
                                      !.current_file = b1.queue[n][1],
                                      !.current_duration = b1.queue[n][2],
                                      !.playback_start_time = t],
                     result |-> b1.queue[n][1]]
               ELSE [b |-> b1, result |-> None]

\* a plausible slip: the buffer margin is left out
EffectiveDurationNoMargin(duration, margin) == duration

\* effective_duration = self.current_duration + self.buffer_time, l.75
EffectiveDuration(duration, margin) == duration + margin

\* AudioBufferQueue.get_next at time t: the new fields and the return value
BaseGetNext(b, t) ==
    LET playing == b.current_file # None /\ b.playback_start_time # NoTime
        elapsed_time == t - b.playback_start_time
        effective_duration == EffectiveDuration(b.current_duration, buffer_time)
    IN IF playing /\ elapsed_time < effective_duration
       THEN [b |-> b, result |-> None]
       ELSE LET b1 == IF playing THEN [b EXCEPT !.current_file = None] ELSE b
            IN IF b1.current_file = None /\ b1.queue # <<>>
               THEN [b |-> [b1 EXCEPT !.queue = Tail(@),
                                      !.current_file = Head(b1.queue)[1],
                                      !.current_duration = Head(b1.queue)[2],
                                      !.playback_start_time = t],
                     result |-> Head(b1.queue)[1]]
               ELSE [b |-> b1, result |-> None]

\* OrderedAudioBufferQueue.get_next at time t
OrderedGetNext(b, t) ==
    LET r1 == BaseGetNext(b, t)
    IN IF r1.b.current_file = None /\ r1.result = None
          /\ DOMAIN r1.b.pending_files # {}
       THEN BaseGetNext(MoveNextPendingToQueue(r1.b), t)
       ELSE r1

SetBuf(b) ==
    /\ queue' = b.queue
    /\ current_file' = b.current_file
    /\ current_duration' = b.current_duration
    /\ playback_start_time' = b.playback_start_time
    /\ pending_files' = b.pending_files
    /\ next_position' = b.next_position

BufInit ==
    /\ queue = <<>>
    /\ current_file = None
    /\ current_duration = 0
    /\ playback_start_time = NoTime
    /\ buffer_time \in 0 .. MaxBufferTime
    /\ pending_files = EmptyDict
    /\ next_position = 0
    /\ clock = 0
    /\ nAdds = 0
    /\ added = {}
    /\ dupAdd = FALSE
    /\ heldBack = {}
    /\ returned = <<>>
    /\ cleared = FALSE

\* the buffer of a specification that does not use it
BufIdle ==
    /\ queue = <<>>
    /\ current_file = None
    /\ current_duration = 0
    /\ playback_start_time = NoTime
    /\ buffer_time = 0
    /\ pending_files = EmptyDict
    /\ next_position = 0
    /\ clock = 0
    /\ nAdds = 0
    /\ added = {}
    /\ dupAdd = FALSE
    /\ heldBack = {}
    /\ returned = <<>>
    /\ cleared = FALSE

add_with_position(file_path, position, exists, readable, fileDur) ==
    /\ nAdds < MaxAdds
    /\ SetBuf(MoveNextPendingToQueue(
           [BufState EXCEPT !.pending_files =
               DictPut(@, position,
                       <<file_path, StoredDuration(exists, readable, fileDur)>>)]))
    /\ nAdds' = nAdds + 1
    /\ added' = added \cup {position}
    /\ dupAdd' = (dupAdd \/ position \in added)
    /\ heldBack' = IF position # next_position THEN heldBack \cup {position} ELSE heldBack
    /\ UNCHANGED <<buffer_time, clock, returned, cleared>>

get_next ==
    LET r == OrderedGetNext(BufState, clock)
    IN /\ SetBuf(r.b)
       /\ returned' = IF r.result # None THEN Append(returned, r.result) ELSE returned
       /\ UNCHANGED <<buffer_time, clock, nAdds, added, dupAdd, heldBack, cleared>>

\* a plausible slip: the override forgets super().clear()
OrderedClearWithoutSuper(b) ==
    [b EXCEPT !.pending_files = EmptyDict, !.next_position = 0]

\* OrderedAudioBufferQueue.clear(): super().clear() empties the ready queue
\* and forgets the current item; then the pending map and next_position
OrderedClear(b) ==
    [b EXCEPT !.queue = <<>>, !.current_file = None, !.playback_start_time = NoTime,
              !.pending_files = EmptyDict, !.next_position = 0]

clear ==
    /\ SetBuf(OrderedClear(BufState))
    /\ cleared' = TRUE
    /\ UNCHANGED <<buffer_time, clock, nAdds, added, dupAdd, heldBack, returned>>

BufTick ==
    /\ clock < MaxClock
    /\ clock' = clock + 1
    /\ UNCHANGED <<queue, current_file, current_duration, playback_start_time,
                   buffer_time, pending_files, next_position, nAdds, added, dupAdd,
                   heldBack, returned, cleared>>

BufAdd ==
    \E position \in Positions, f \in FileStates :
        add_with_position(PathOf(position), position, f.exists, f.readable, f.fileDur)

(***************************************************************************)
(*                        RVCServer worker pool                            *)
(***************************************************************************)
VARIABLES
    procs,           \* every worker process spawned so far: worker_id, position in
                     \* rvc_worker_process, job in hand, its ready_event
    workers,         \* self.workers: the process handles (indices into procs)
    ready_events,    \* self.ready_events: the ready events (by process)
    job_queue,       \* self.job_queue
    result_queue,    \* self.result_queue
    shutdown_event,  \* self.shutdown_event
    job_counter,     \* self.job_counter
    is_running,      \* self.is_running
    ctl,             \* where the thread that calls start()/shutdown() is
    ctlIdx,          \* the loop index of that call
    fromStart,       \* shutdown() was called by start()
    startRet,        \* what the last start() returned
    startTimedOut,   \* the startup timeout of the running start() has expired
    started,         \* history: start() has spawned the workers of this run
    initFailed,      \* history: the worker ids whose warm-up failed
    initOk,          \* history: the worker ids whose warm-up succeeded
    unreadyAtTimeout,\* history: a worker had not signalled ready when the timeout expired
    jobsAtShutdown,  \* history: job_counter when shutdown() was last called by the user
    killedAny,       \* history: the last shutdown() force-terminated a worker
    delivered,       \* history: every Result returned by get_result
    submitRet,       \* how the last submit_job call ended: "Ok" or "RuntimeError"
    secondShutdown   \* history: shutdown() was called after a shutdown() had returned

poolVars == <<procs, workers, ready_events, job_queue, result_queue, shutdown_event,
              job_counter, is_running, ctl, ctlIdx, fromStart, startRet, startTimedOut,
              started, initFailed, initOk, unreadyAtTimeout, jobsAtShutdown, killedAny,
              delivered, submitRet, secondShutdown>>

\* RVCServer(num_workers=...)
num_workers == 2
\* number of jobs the callers submit in one run
MaxJobs == 3
\* RVCResult's default worker_id
DefaultWorkerId == -1

\* the item None on a queue
QNone == [none |-> TRUE]

\* RVCJob(...).to_dict(): the fields the orchestration reads
RVCJob(job_id, output_audio_path) ==
    [job_id |-> job_id, output_audio_path |-> output_audio_path]

\* RVCResult(...).to_dict()
RVCResult(job_id, success, output_path, error, worker_id) ==
    [job_id |-> job_id, success |-> success, output_path |-> output_path,
     error |-> error, worker_id |-> worker_id]

NewProcess(worker_id) ==
    [worker_id |-> worker_id, st |-> "init", job |-> QNone, ready |-> FALSE,
     unanswered |-> 0]

\* Process.is_alive()
IsAlive(p) == procs[p].st \notin {"exited", "killed", "crashed"}

\* get_status()
GetStatus ==
    [running |-> is_running,
     num_workers |-> num_workers,
     workers_alive |-> Cardinality({i \in 1 .. Len(workers) : IsAlive(workers[i])}),
     jobs_submitted |-> job_counter,
     pending_results |-> Len(result_queue)]

RECURSIVE Repeat(_, _)
Repeat(x, n) == IF n <= 0 THEN <<>> ELSE <<x>> \o Repeat(x, n - 1)

PoolInit ==
    /\ procs = <<>>
    /\ workers = <<>>
    /\ ready_events = <<>>
    /\ job_queue = <<>>
    /\ result_queue = <<>>
    /\ shutdown_event = FALSE
    /\ job_counter = 0
    /\ is_running = FALSE
    /\ ctl = "idle"
    /\ ctlIdx = 0
    /\ fromStart = FALSE
    /\ startRet = "None"
    /\ startTimedOut = FALSE
    /\ started = FALSE
    /\ initFailed = {}
    /\ initOk = {}
    /\ unreadyAtTimeout = FALSE
    /\ jobsAtShutdown = 0
    /\ killedAny = FALSE
    /\ delivered = <<>>
    /\ submitRet = None
    /\ secondShutdown = FALSE

PoolIdle == PoolInit

ctlVars == <<ctl, ctlIdx, fromStart, startRet, startTimedOut>>
poolHist == <<started, initFailed, initOk, unreadyAtTimeout, jobsAtShutdown, killedAny,
              submitRet, secondShutdown>>

(* ------------------------- rvc_worker_process ------------------------- *)

\* init_rvc(), load_model(), get_vc() succeed: ready_event.set(), enter the loop
WorkerInitOk(p) ==
    /\ procs[p].st = "init"
    /\ procs' = [procs EXCEPT ![p].st = "loop", ![p].ready = TRUE]
    /\ initOk' = initOk \cup {procs[p].worker_id}
    /\ UNCHANGED <<workers, ready_events, job_queue, result_queue, shutdown_event,
                   job_counter, is_running, ctlVars, started, initFailed, unreadyAtTimeout,
                   jobsAtShutdown, killedAny, delivered, submitRet,
                   secondShutdown>>

\* warm-up raises: the outer handler sets ready_event and the process ends
WorkerInitFail(p) ==
    /\ procs[p].st = "init"
    /\ procs' = [procs EXCEPT ![p].st = "exited", ![p].ready = TRUE]
    /\ initFailed' = initFailed \cup {procs[p].worker_id}
    /\ UNCHANGED <<workers, ready_events, job_queue, result_queue, shutdown_event,
                   job_counter, is_running, ctlVars, started, initOk, unreadyAtTimeout,
                   jobsAtShutdown, killedAny, delivered, submitRet,
                   secondShutdown>>

\* while not shutdown_event.is_set(): ...
WorkerLoop(p) ==
    /\ procs[p].st = "loop"
    /\ procs' = [procs EXCEPT ![p].st = IF shutdown_event THEN "exited" ELSE "get"]
    /\ UNCHANGED <<workers, ready_events, job_queue, result_queue, shutdown_event,
                   job_counter, is_running, ctlVars, poolHist, delivered>>

\* a plausible slip: only the first worker reads the job queue
MayGetFirstWorkerOnly(p) == procs[p].st = "get" /\ procs[p].worker_id = 0

\* a plausible slip: the next job is fetched while the last one is still
\* being converted
MayGetWhileBusy(p) == procs[p].st \in {"get", "busy"}

\* the worker is blocked in job_queue.get(timeout=0.5)
MayGet(p) == procs[p].st = "get"

\* job_queue.get(timeout=0.5) returns an item: None ends the loop, a job is taken
WorkerGet(p) ==
    /\ MayGet(p)
    /\ job_queue # <<>>
    /\ job_queue' = Tail(job_queue)
    /\ procs' = IF Head(job_queue) = QNone
                THEN [procs EXCEPT ![p].st = "exited"]
                ELSE [procs EXCEPT ![p].st = "busy", ![p].job = Head(job_queue),
                                   ![p].unanswered = @ + 1]
    /\ UNCHANGED <<workers, ready_events, result_queue, shutdown_event,
                   job_counter, is_running, ctlVars, poolHist, delivered>>

\* job_queue.get(timeout=0.5) raises Empty: continue
WorkerGetEmpty(p) ==
    /\ procs[p].st = "get"
    /\ job_queue = <<>>
    /\ procs' = [procs EXCEPT ![p].st = "loop"]
    /\ UNCHANGED <<workers, ready_events, job_queue, result_queue, shutdown_event,
                   job_counter, is_running, ctlVars, poolHist, delivered>>

\* a plausible slip: worker_id is not passed to the Result, which keeps
\* the default
WorkerResultNoWorkerId(p, raises) ==
    IF raises
    THEN RVCResult(procs[p].job.job_id, FALSE, None, "E", DefaultWorkerId)
    ELSE RVCResult(procs[p].job.job_id, TRUE, procs[p].job.output_audio_path, None,
                   DefaultWorkerId)

\* the Result the worker builds for the job in hand: vc_single and sf.write
\* returned, or one of them raised (error = str(e))
WorkerResult(p, raises) ==
    IF raises
    THEN RVCResult(procs[p].job.job_id, FALSE, None, "E", procs[p].worker_id)
    ELSE RVCResult(procs[p].job.job_id, TRUE, procs[p].job.output_audio_path, None,
                   procs[p].worker_id)

\* a plausible slip: a conversion error ends the worker
AfterResultExitOnError(p, raises) == IF raises THEN "exited" ELSE "loop"

\* where the worker goes after it has put its Result
AfterResult(p, raises) == "loop"

\* vc.vc_single(...), sf.write(...), result_queue.put(result.to_dict()), and
\* back to the top of the loop
WorkerProcess(p, raises) ==
    /\ procs[p].st = "busy"
    /\ result_queue' = Append(result_queue, WorkerResult(p, raises))
    /\ procs' = [procs EXCEPT ![p].st = AfterResult(p, raises), ![p].job = QNone,
                              ![p].unanswered = @ - 1]
    /\ UNCHANGED <<workers, ready_events, job_queue, shutdown_event,
                   job_counter, is_running, ctlVars, poolHist, delivered>>

\* the worker process dies (a native crash, the OOM killer, a kill from
\* outside): nothing of the loop's handlers runs, so a job in hand gets no
\* Result; the queues and the other processes are untouched
WorkerDies(p) ==
    /\ procs[p].st \in {"loop", "get", "busy"}
    /\ procs' = [procs EXCEPT ![p].st = "crashed"]
    /\ UNCHANGED <<workers, ready_events, job_queue, result_queue, shutdown_event,
                   job_counter, is_running, ctlVars, poolHist, delivered>>

\* one step of a live worker's loop
WorkerStep(p) ==
    \/ WorkerLoop(p)
    \/ WorkerGet(p)
    \/ WorkerGetEmpty(p)
    \/ \E raises \in BOOLEAN : WorkerProcess(p, raises)

(* ------------------------------ RVCServer ------------------------------ *)

ProcessesOf(handles) == {handles[i] : i \in 1 .. Len(handles)}

\* start(): "Server already running" returns True; otherwise one process and
\* one ready event per worker are created and started
Start ==
    /\ ctl = "idle"
    /\ IF is_running
       THEN /\ startRet' = "True"
            /\ UNCHANGED <<procs, workers, ready_events, ctl, ctlIdx, startTimedOut,
                           started, initFailed, initOk, unreadyAtTimeout>>
       ELSE /\ ~started
            /\ procs' = procs \o [i \in 1 .. num_workers |-> NewProcess(i - 1)]
            /\ workers' = workers \o [i \in 1 .. num_workers |-> Len(procs) + i]
            /\ ready_events' = ready_events \o [i \in 1 .. num_workers |-> Len(procs) + i]
            /\ ctl' = "start_wait"
            /\ ctlIdx' = 1
            /\ startTimedOut' = FALSE
            /\ startRet' = "None"
            /\ started' = TRUE
            /\ initFailed' = {}
            /\ initOk' = {}
            /\ unreadyAtTimeout' = FALSE
    /\ UNCHANGED <<job_queue, result_queue, shutdown_event, job_counter, is_running,
                   fromStart, jobsAtShutdown, killedAny, delivered, submitRet,
                   secondShutdown>>

\* start() calls that spawn workers in one run
MaxStarts == 2

\* start() on a pool that was started before and is not running (after
\* shutdown(), or after a start() that failed), l.284-309: the same queues,
\* the same shutdown_event and the same job counter are handed to the new
\* processes
Restart ==
    /\ ctl = "idle"
    /\ ~is_running
    /\ started
    /\ Len(procs) < MaxStarts * num_workers
    /\ procs' = procs \o [i \in 1 .. num_workers |-> NewProcess(i - 1)]
    /\ workers' = workers \o [i \in 1 .. num_workers |-> Len(procs) + i]
    /\ ready_events' = ready_events \o [i \in 1 .. num_workers |-> Len(procs) + i]
    /\ ctl' = "start_wait"
    /\ ctlIdx' = 1
    /\ startTimedOut' = FALSE
    /\ startRet' = "None"
    /\ initFailed' = {}
    /\ initOk' = {}
    /\ unreadyAtTimeout' = FALSE
    /\ UNCHANGED <<job_queue, result_queue, shutdown_event, job_counter, is_running,
                   fromStart, started, jobsAtShutdown, killedAny, delivered, submitRet,
                   secondShutdown>>

\* the startup timeout runs out while start() waits
StartTimerExpires ==
    /\ ctl = "start_wait"
    /\ ~startTimedOut
    /\ startTimedOut' = TRUE
    /\ unreadyAtTimeout' = \E p \in ProcessesOf(ready_events) : ~procs[p].ready
    /\ UNCHANGED <<procs, workers, ready_events, job_queue, result_queue, shutdown_event,
                   job_counter, is_running, ctl, ctlIdx, fromStart, startRet, started,
                   initFailed, initOk, jobsAtShutdown, killedAny, delivered, submitRet,
                   secondShutdown>>

\* one turn of "for i, ready_event in enumerate(self.ready_events)": no time
\* left or the wait timed out -> shutdown() and return False; the event is
\* set -> next event, and after the last one is_running = True, return True
StartWait ==
    /\ ctl = "start_wait"
    /\ IF startTimedOut
       THEN /\ ctl' = "shut_signal"
            /\ fromStart' = TRUE
            /\ UNCHANGED <<ctlIdx, is_running, startRet>>
       ELSE /\ procs[ready_events[ctlIdx]].ready
            /\ IF ctlIdx = Len(ready_events)
               THEN /\ is_running' = TRUE
                    /\ ctl' = "idle"
                    /\ startRet' = "True"
                    /\ UNCHANGED <<ctlIdx, fromStart>>
               ELSE /\ ctlIdx' = ctlIdx + 1
                    /\ UNCHANGED <<ctl, is_running, startRet, fromStart>>
    /\ UNCHANGED <<procs, workers, ready_events, job_queue, result_queue, shutdown_event,
                   job_counter, startTimedOut, poolHist, delivered>>

\* shutdown() called by the user: returns at once when nothing is running
\* a plausible slip: the early return tests the event, not the worker list
ShutdownReturnsBeforeSignal == ~is_running /\ ~shutdown_event

\* "if not self.is_running and not self.workers: return", rvc_server.py l.433-434
ShutdownReturnsAtOnce == ~is_running /\ workers = <<>>

Shutdown ==
    /\ ctl = "idle"
    /\ secondShutdown' = (secondShutdown \/ shutdown_event)
    /\ IF ShutdownReturnsAtOnce
       THEN UNCHANGED <<ctl, fromStart, jobsAtShutdown, killedAny>>
       ELSE /\ ctl' = "shut_signal"
            /\ fromStart' = FALSE
            /\ jobsAtShutdown' = job_counter
            /\ killedAny' = FALSE
    /\ UNCHANGED <<procs, workers, ready_events, job_queue, result_queue, shutdown_event,
                   job_counter, is_running, ctlIdx, startRet, startTimedOut, started,
                   initFailed, initOk, unreadyAtTimeout, delivered, submitRet>>

\* what shutdown() does to make the workers stop: the event, then one None
\* per worker on the job queue
SignalShutdown ==
    /\ shutdown_event' = TRUE
    /\ job_queue' = job_queue \o Repeat(QNone, num_workers)

\* the end of shutdown(): the lists are emptied, is_running = False; start()
\* then returns False
FinishShutdown ==
    /\ workers' = <<>>
    /\ ready_events' = <<>>
    /\ is_running' = FALSE
    /\ ctl' = "idle"
    /\ ctlIdx' = 0
    /\ startRet' = IF fromStart THEN "False" ELSE startRet

ShutdownSignal ==
    /\ ctl = "shut_signal"
    /\ SignalShutdown
    /\ ctl' = "shut_join"
    /\ ctlIdx' = 1
    /\ UNCHANGED <<procs, workers, ready_events, result_queue, job_counter, is_running,
                   fromStart, startRet, startTimedOut, poolHist, delivered>>

\* a plausible slip: a straggler is left running
TerminateNothing(ps, p) == ps

\* worker.join(timeout / num_workers) on a live worker runs out:
\* worker.terminate(); worker.join(1.0)
Terminate(ps, p) == [ps EXCEPT ![p].st = "killed", ![p].job = QNone]

\* one turn of "for i, worker in enumerate(self.workers)": the join returns
\* because the worker has ended, or it times out and the worker is terminated
ShutdownJoin(timesOut) ==
    /\ ctl = "shut_join"
    /\ LET p == workers[ctlIdx]
       IN /\ IF IsAlive(p)
             THEN /\ timesOut
                  /\ procs' = Terminate(procs, p)
                  /\ killedAny' = TRUE
             ELSE /\ ~timesOut
                  /\ UNCHANGED <<procs, killedAny>>
          /\ IF ctlIdx = Len(workers)
             THEN FinishShutdown
             ELSE /\ ctlIdx' = ctlIdx + 1
                  /\ UNCHANGED <<workers, ready_events, is_running, ctl, startRet>>
    /\ UNCHANGED <<job_queue, result_queue, shutdown_event, job_counter, fromStart,
                   startTimedOut, started, initFailed, initOk, unreadyAtTimeout,
                   jobsAtShutdown, delivered, submitRet,
                   secondShutdown>>

\* a plausible slip: submit_job does not test is_running
SubmitNeverRaises == FALSE

\* "if not self.is_running: raise RuntimeError", rvc_server.py l.347-348
SubmitRaises == ~is_running

\* a plausible slip: the increment is left out
CounterNotIncremented(value) == value

\* "self.job_counter.value += 1" under the counter's lock, l.351-353
IncrementCounter(value) == value + 1

\* submit_job(): RuntimeError when not running; otherwise the next job id is
\* taken under the counter's lock and the job is put on the job queue
submit_job(output_audio_path) ==
    /\ job_counter < MaxJobs
    /\ IF SubmitRaises
       THEN /\ submitRet' = "RuntimeError"
            /\ UNCHANGED <<job_counter, job_queue>>
       ELSE /\ job_counter' = IncrementCounter(job_counter)
            /\ job_queue' = Append(job_queue, RVCJob(job_counter, output_audio_path))
            /\ submitRet' = "Ok"
    /\ UNCHANGED <<procs, workers, ready_events, result_queue, shutdown_event, is_running,
                   ctlVars, started, initFailed, initOk, unreadyAtTimeout, jobsAtShutdown,
                   killedAny, delivered, secondShutdown>>

\* get_result(timeout): the next Result, or None when the queue stays empty
get_result ==
    /\ IF result_queue = <<>>
       THEN UNCHANGED <<result_queue, delivered, submitRet>>
       ELSE /\ result_queue' = Tail(result_queue)
            /\ delivered' = Append(delivered, Head(result_queue))
    /\ UNCHANGED <<procs, workers, ready_events, job_queue, shutdown_event, job_counter,
                   is_running, ctlVars, poolHist>>

\* the output paths the callers of the pool pass
PoolOutPaths == {"out"}

----------------------------------------------------------------------------
\* WorkerManager (src/rvc/processing/worker_manager.py) and the threads it
\* runs (persistent_rvc_worker, src/rvc/processing/workers.py).

VARIABLES
    unload_delay,      \* self.unload_delay
    rvc_workers,       \* self.rvc_workers: worker_id -> [thread, last_used]
    rvc_job_queues,    \* self.rvc_job_queues: worker_id -> the Queue (named by its thread)
    rvc_active,        \* self.rvc_active: worker_id -> the Event (named by its thread)
    threads,           \* every thread started so far, with its Queue and its Event
    manager_lock,      \* TRUE while the monitor holds self.manager_lock
    mon,               \* where _monitor_workers is
    current_time,      \* the monitor's local current_time
    monTodo,           \* the monitor's list(self.rvc_workers.keys()) still to visit
    mgrClock,          \* time.time()
    held,              \* queues a caller got from get_rvc_worker and has not used yet
    lastGet,           \* history: time of the last get_rvc_worker per id
    fresh,             \* history: id was created and has had no job and no further call
    scanDone           \* history: current_time of the last completed monitor pass

mgrVars == <<unload_delay, rvc_workers, rvc_job_queues, rvc_active, threads, manager_lock,
             mon, current_time, monTodo, mgrClock, held, lastGet, fresh, scanDone>>

\* the manager's shutdown calls and the module's accessor functions
VARIABLES
    mgr_shutdown_event,  \* the manager's self.shutdown_event
    shut,                \* where the thread is that calls WorkerManager.shutdown
    worker_manager,      \* the module's _worker_manager: None, or the manager
    apiCall              \* history: the last call of an accessor function

opsVars == <<mgr_shutdown_event, shut, worker_manager, apiCall>>

\* the manager's TTS workers (threads running persistent_tts_worker; they
\* are kept in threads with the RVC threads)
VARIABLES
    tts_workers,       \* self.tts_workers: worker_id -> [thread, last_used]
    tts_job_queues,    \* self.tts_job_queues: worker_id -> the Queue (named by its thread)
    tts_active         \* self.tts_active: worker_id -> the Event (named by its thread)

ttsVars == <<tts_workers, tts_job_queues, tts_active>>

\* largest unload delay tried
MaxDelay == 1
\* time.time() runs from 0 to MaxMgrClock
MaxMgrClock == 3
\* threads the manager may start in one run
MaxThreads == 2
\* jobs that may wait on one worker's queue
MaxQueue == 2

\* the worker id that is followed: the records of different ids do not
\* depend on each other
WorkerIds == {0}

\* a plausible slip: active_event.set() is left out when the worker is created
NewThreadNotActive(worker_id) ==
    [worker_id |-> worker_id, st |-> "get", q |-> <<>>, active |-> FALSE, inflight |-> 0]

\* thread.start() of persistent_rvc_worker with a new Queue and a set Event
NewThread(worker_id) ==
    [worker_id |-> worker_id, st |-> "get", q |-> <<>>, active |-> TRUE, inflight |-> 0]

\* list(d.keys())
RECURSIVE KeysOf(_)
KeysOf(S) ==
    IF S = {} THEN <<>>
    ELSE LET k == CHOOSE x \in S : \A y \in S : x <= y IN <<k>> \o KeysOf(S \ {k})

Keys(d) == KeysOf(DOMAIN d)

\* a plausible slip: the operands of the subtraction are swapped
ShouldUnloadSwapped(active, now, last_used, delay) == ~active /\ last_used - now > delay

\* a plausible slip: the monitor does not look at the active flag
ShouldUnloadIgnoringActive(active, now, last_used, delay) == now - last_used > delay

\* the monitor's test, worker_manager.py l.101-104
ShouldUnload(active, now, last_used, delay) == ~active /\ now - last_used > delay

MgrInit ==
    /\ unload_delay \in 0 .. MaxDelay
    /\ rvc_workers = EmptyDict
    /\ rvc_job_queues = EmptyDict
    /\ rvc_active = EmptyDict
    /\ threads = <<>>
    /\ manager_lock = FALSE
    /\ mon = "sleep"
    /\ current_time = 0
    /\ monTodo = <<>>
    /\ mgrClock = 0
    /\ held = {}
    /\ lastGet = [w \in WorkerIds |-> NoTime]
    /\ fresh = [w \in WorkerIds |-> FALSE]
    /\ scanDone = NoTime
    /\ mgr_shutdown_event = FALSE
    /\ shut = "idle"
    /\ worker_manager = None
    /\ apiCall = [op |-> None, arg |-> <<>>, seq |-> 0]
    /\ tts_workers = EmptyDict
    /\ tts_job_queues = EmptyDict
    /\ tts_active = EmptyDict

\* the manager while another component is studied
MgrIdle == MgrInit /\ unload_delay = 0

mgrHist == <<lastGet, fresh, scanDone>>
monVars == <<mon, current_time, monTodo, manager_lock>>

\* a plausible slip: the test copied from get_tts_worker looks into tts_workers
HasRvcWorkerInTtsDict(worker_id) == worker_id \in DOMAIN tts_workers

\* "if worker_id in self.rvc_workers", l.188
HasRvcWorker(worker_id) == worker_id \in DOMAIN rvc_workers

\* get_rvc_worker, l.187-212 (the whole call runs under manager_lock)
get_rvc_worker(worker_id) ==
    /\ ~manager_lock
    /\ IF HasRvcWorker(worker_id)
       THEN /\ rvc_workers' = [rvc_workers EXCEPT ![worker_id].last_used = mgrClock]
            /\ threads' = [threads EXCEPT ![rvc_active[worker_id]].active = TRUE]
            /\ held' = held \cup {rvc_job_queues[worker_id]}
            /\ fresh' = [fresh EXCEPT ![worker_id] = FALSE]
            /\ UNCHANGED <<rvc_job_queues, rvc_active>>
       ELSE /\ Len(threads) < MaxThreads
            /\ LET t == Len(threads) + 1 IN
                 /\ threads' = Append(threads, NewThread(worker_id))
                 /\ rvc_job_queues' = DictPut(rvc_job_queues, worker_id, t)
                 /\ rvc_active' = DictPut(rvc_active, worker_id, t)
                 /\ rvc_workers' = DictPut(rvc_workers, worker_id,
                                           [thread |-> t, last_used |-> mgrClock])
                 /\ held' = held \cup {t}
            /\ fresh' = [fresh EXCEPT ![worker_id] = TRUE]
    /\ lastGet' = [lastGet EXCEPT ![worker_id] = mgrClock]
    /\ UNCHANGED <<unload_delay, monVars, mgrClock, scanDone>>

\* the caller puts a job on the queue get_rvc_worker returned
\* (tools/test_persistent_workers.py l.206-207)
PutJob(t) ==
    /\ t \in held
    /\ Len(threads[t].q) < MaxQueue
    /\ threads' = [threads EXCEPT ![t].q = Append(@, "job")]
    /\ held' = held \ {t}
    /\ LET w == threads[t].worker_id IN
         fresh' = IF w \in DOMAIN rvc_job_queues /\ rvc_job_queues[w] = t
                  THEN [fresh EXCEPT ![w] = FALSE] ELSE fresh
    /\ UNCHANGED <<unload_delay, rvc_workers, rvc_job_queues, rvc_active, monVars, mgrClock,
                   lastGet, scanDone>>

\* persistent_rvc_worker is at job_queue.get, workers.py l.182
ThreadMayGet(t) == threads[t].st = "get"

\* job_queue.get returns, l.182-187: None ends the thread, a job is taken
ThreadGet(t) ==
    /\ ThreadMayGet(t)
    /\ threads[t].q # <<>>
    /\ threads' = IF Head(threads[t].q) = "stop"
                  THEN [threads EXCEPT ![t].q = Tail(@), ![t].st = "exited"]
                  ELSE [threads EXCEPT ![t].q = Tail(@), ![t].st = "got",
                                       ![t].inflight = @ + 1]
    /\ UNCHANGED <<unload_delay, rvc_workers, rvc_job_queues, rvc_active, monVars, mgrClock,
                   held, mgrHist>>

\* active_event.set(), l.190 (not under manager_lock)
ThreadSetActive(t) ==
    /\ threads[t].st = "got"
    /\ threads' = [threads EXCEPT ![t].st = "busy", ![t].active = TRUE]
    /\ UNCHANGED <<unload_delay, rvc_workers, rvc_job_queues, rvc_active, monVars, mgrClock,
                   held, mgrHist>>

\* mark_rvc_worker_idle, worker_manager.py l.221-226
MarkIdle(ths, worker_id) ==
    IF worker_id \in DOMAIN rvc_workers
    THEN [ths EXCEPT ![rvc_active[worker_id]].active = FALSE]
    ELSE ths

\* the job ends (normally l.315-323, or by an exception l.327-329) and the
\* thread calls mark_rvc_worker_idle, which needs manager_lock
ThreadComplete(t) ==
    /\ threads[t].st = "busy"
    /\ ~manager_lock
    /\ LET w == threads[t].worker_id IN
         /\ threads' = MarkIdle([threads EXCEPT ![t].st = "get", ![t].inflight = @ - 1], w)
         /\ rvc_workers' = IF w \in DOMAIN rvc_workers
                           THEN [rvc_workers EXCEPT ![w].last_used = mgrClock]
                           ELSE rvc_workers
    /\ UNCHANGED <<unload_delay, rvc_job_queues, rvc_active, monVars, mgrClock, held, mgrHist>>

\* _monitor_workers wakes, l.77-83: the loop ends once shutdown_event is set,
\* and there is nothing to do while unload_delay <= 0
MonitorWake ==
    /\ mon = "sleep"
    /\ IF mgr_shutdown_event
       THEN mon' = "stopped" /\ UNCHANGED current_time
       ELSE IF unload_delay <= 0
            THEN UNCHANGED <<mon, current_time>>
            ELSE mon' = "lock" /\ current_time' = mgrClock
    /\ UNCHANGED <<unload_delay, rvc_workers, rvc_job_queues, rvc_active, threads, manager_lock,
                   monTodo, mgrClock, held, mgrHist>>

\* with self.manager_lock, l.85, and list(self.rvc_workers.keys()), l.99
MonitorLock ==
    /\ mon = "lock"
    /\ ~manager_lock
    /\ manager_lock' = TRUE
    /\ monTodo' = Keys(rvc_workers)
    /\ mon' = "scan"
    /\ UNCHANGED <<unload_delay, rvc_workers, rvc_job_queues, rvc_active, threads, current_time,
                   mgrClock, held, mgrHist>>

\* one round of the loop l.99-108, up to the join of _shutdown_rvc_worker
\* (l.123-124); after the last round the lock is released
MonitorScan ==
    /\ mon = "scan"
    /\ IF monTodo = <<>>
       THEN /\ manager_lock' = FALSE
            /\ mon' = "sleep"
            /\ scanDone' = current_time
            /\ UNCHANGED <<threads, monTodo>>
       ELSE LET w == Head(monTodo) IN
            IF ShouldUnload(threads[rvc_active[w]].active, current_time,
                            rvc_workers[w].last_used, unload_delay)
            THEN /\ threads' = [threads EXCEPT ![rvc_job_queues[w]].q = Append(@, "stop")]
                 /\ mon' = "join"
                 /\ UNCHANGED <<manager_lock, monTodo, scanDone>>
            ELSE /\ monTodo' = Tail(monTodo)
                 /\ UNCHANGED <<threads, manager_lock, mon, scanDone>>
    /\ UNCHANGED <<unload_delay, rvc_workers, rvc_job_queues, rvc_active, current_time,
                   mgrClock, held, lastGet, fresh>>

\* join(timeout=5) returns and the records are deleted, l.124-127
MonitorJoin(timesOut) ==
    /\ mon = "join"
    /\ LET w == Head(monTodo) IN
         /\ timesOut <=> (threads[rvc_workers[w].thread].st # "exited")
         /\ rvc_workers' = DictPop(rvc_workers, w)
         /\ rvc_job_queues' = DictPop(rvc_job_queues, w)
         /\ rvc_active' = DictPop(rvc_active, w)
    /\ monTodo' = Tail(monTodo)
    /\ mon' = "scan"
    /\ UNCHANGED <<unload_delay, threads, manager_lock, current_time, mgrClock, held, mgrHist>>

\* time passes
MgrTick ==
    /\ mgrClock < MaxMgrClock
    /\ mgrClock' = mgrClock + 1
    /\ UNCHANGED <<unload_delay, rvc_workers, rvc_job_queues, rvc_active, threads, monVars,
                   held, mgrHist>>

\* thread.start() of persistent_tts_worker with a new Queue and a set Event;
\* the thread first connects to Triton
NewTtsThread(worker_id) ==
    [worker_id |-> worker_id, st |-> "init", q |-> <<>>, active |-> TRUE, inflight |-> 0]

\* get_tts_worker, l.142-172 (the whole call runs under manager_lock)
get_tts_worker(worker_id) ==
    /\ ~manager_lock
    /\ IF worker_id \in DOMAIN tts_workers
       THEN /\ tts_workers' = [tts_workers EXCEPT ![worker_id].last_used = mgrClock]
            /\ threads' = [threads EXCEPT ![tts_active[worker_id]].active = TRUE]
            /\ held' = held \cup {tts_job_queues[worker_id]}
            /\ UNCHANGED <<tts_job_queues, tts_active>>
       ELSE /\ Len(threads) < MaxThreads
            /\ LET t == Len(threads) + 1 IN
                 /\ threads' = Append(threads, NewTtsThread(worker_id))
                 /\ tts_job_queues' = DictPut(tts_job_queues, worker_id, t)
                 /\ tts_active' = DictPut(tts_active, worker_id, t)
                 /\ tts_workers' = DictPut(tts_workers, worker_id,
                                           [thread |-> t, last_used |-> mgrClock])
                 /\ held' = held \cup {t}
    /\ UNCHANGED <<unload_delay, rvc_workers, rvc_job_queues, rvc_active, monVars, mgrClock,
                   mgrHist>>

\* persistent_tts_worker starts, workers.py l.52-63: it returns at once
\* when the Triton server is not ready, else it enters its loop
TtsThreadInit(t, ready) ==
    /\ threads[t].st = "init"
    /\ threads' = [threads EXCEPT ![t].st = IF ready THEN "get" ELSE "exited"]
    /\ UNCHANGED <<unload_delay, rvc_workers, rvc_job_queues, rvc_active, monVars, mgrClock,
                   held, mgrHist, ttsVars>>

\* mark_tts_worker_idle, worker_manager.py l.214-219
MarkTtsIdle(ths, worker_id) ==
    IF worker_id \in DOMAIN tts_workers
    THEN [ths EXCEPT ![tts_active[worker_id]].active = FALSE]
    ELSE ths

\* the TTS job ends (workers.py l.132-141, or by an exception l.146-148) and
\* the thread calls mark_tts_worker_idle, which needs manager_lock
TtsThreadComplete(t) ==
    /\ threads[t].st = "busy"
    /\ ~manager_lock
    /\ LET w == threads[t].worker_id IN
         /\ threads' = MarkTtsIdle([threads EXCEPT ![t].st = "get", ![t].inflight = @ - 1], w)
         /\ tts_workers' = IF w \in DOMAIN tts_workers
                           THEN [tts_workers EXCEPT ![w].last_used = mgrClock]
                           ELSE tts_workers
    /\ UNCHANGED <<unload_delay, rvc_workers, rvc_job_queues, rvc_active, monVars, mgrClock,
                   held, mgrHist, tts_job_queues, tts_active>>

\* queue.put(None) on the queue of every thread in ts
PutSentinel(ths, ts) ==
    [t \in 1 .. Len(ths) |-> IF t \in ts THEN [ths[t] EXCEPT !.q = Append(@, "stop")]
                                         ELSE ths[t]]

\* update_unload_delay, l.228-232 (under manager_lock)
update_unload_delay(new_delay) ==
    /\ ~manager_lock
    /\ unload_delay' = new_delay
    /\ UNCHANGED <<rvc_workers, rvc_job_queues, rvc_active, threads, monVars, mgrClock, held,
                   mgrHist>>

\* DEFAULT_MODEL_DELAY, l.21, with MODEL_UNLOAD_DELAY not set in the environment
DEFAULT_MODEL_DELAY == 30

\* an optional int argument: <<>> is None, <<d>> is the int d
DelayArgs == {<<>>} \cup {<<d>> : d \in 0 .. MaxDelay}

\* Python's "x or default": None and 0 are both false
PyOr(arg, default) == IF arg = <<>> \/ arg[1] = 0 THEN default ELSE arg[1]

\* the body of get_worker_manager, l.336-349: the first call constructs the
\* manager (its other fields are as __init__ leaves them), a later call
\* with another delay goes through update_unload_delay
GetOrCreateManager(arg) ==
    /\ IF worker_manager = None
       THEN /\ unload_delay' = PyOr(arg, DEFAULT_MODEL_DELAY)
            /\ UNCHANGED <<rvc_workers, rvc_job_queues, rvc_active, threads, monVars, mgrClock,
                           held, mgrHist>>
       ELSE IF arg # <<>> /\ arg[1] # unload_delay
            THEN update_unload_delay(arg[1])
            ELSE UNCHANGED mgrVars
    /\ worker_manager' = "WorkerManager"
    /\ UNCHANGED <<mgr_shutdown_event, shut>>

get_worker_manager(arg) ==
    /\ GetOrCreateManager(arg)
    /\ apiCall' = [op |-> "get_worker_manager", arg |-> arg, seq |-> 1 - apiCall.seq]

\* set_worker_unload_delay, l.354-368: a negative delay is refused
set_worker_unload_delay(delay) ==
    /\ IF delay < 0
       THEN UNCHANGED <<mgrVars, mgr_shutdown_event, shut, worker_manager>>
       ELSE GetOrCreateManager(<<delay>>)
    /\ apiCall' = [op |-> "set_worker_unload_delay", arg |-> <<delay>>,
                   seq |-> 1 - apiCall.seq]

\* WorkerManager.shutdown, l.296-297: self.shutdown_event.set()
ManagerShutdown ==
    /\ shut = "idle"
    /\ ~mgr_shutdown_event
    /\ mgr_shutdown_event' = TRUE
    /\ shut' = "lock"
    /\ UNCHANGED <<mgrVars, worker_manager, apiCall>>

\* with self.manager_lock, l.300-304: None on every worker's queue
ManagerShutdownPut ==
    /\ shut = "lock"
    /\ ~manager_lock
    /\ manager_lock' = TRUE
    /\ threads' = PutSentinel(threads,
                               {tts_job_queues[w] : w \in DOMAIN tts_job_queues}
                                   \cup {rvc_job_queues[w] : w \in DOMAIN rvc_job_queues})
    /\ shut' = "join"
    /\ UNCHANGED <<unload_delay, rvc_workers, rvc_job_queues, rvc_active, mon, current_time,
                   monTodo, mgrClock, held, mgrHist, mgr_shutdown_event, worker_manager,
                   apiCall>>

\* a plausible slip: join() without a timeout returns only when the thread ended
JoinWithoutTimeout(st) == st = "exited"

\* worker["thread"].join(timeout=5), l.308 and l.310: it returns after 5 s
\* whatever the thread does
JoinReturns(st) == st = "exited" \/ st # "exited"

\* the joins of l.307-310 have returned (each waits 5 s at most) and the
\* lock is released; no record is deleted
ManagerShutdownJoin ==
    /\ shut = "join"
    /\ \A w \in DOMAIN rvc_workers : JoinReturns(threads[rvc_workers[w].thread].st)
    /\ \A w \in DOMAIN tts_workers : JoinReturns(threads[tts_workers[w].thread].st)
    /\ manager_lock' = FALSE
    /\ shut' = "monitor"
    /\ UNCHANGED <<unload_delay, rvc_workers, rvc_job_queues, rvc_active, threads, mon,
                   current_time, monTodo, mgrClock, held, mgrHist, mgr_shutdown_event,
                   worker_manager, apiCall>>

\* self.monitor_thread.join(timeout=5) returns, l.312, and so does shutdown
ManagerShutdownReturn(timesOut) ==
    /\ shut = "monitor"
    /\ timesOut <=> (mon # "stopped")
    /\ shut' = "returned"
    /\ UNCHANGED <<mgrVars, mgr_shutdown_event, worker_manager, apiCall>>

----------------------------------------------------------------------------
\* TTSRVCPipeline.process (src/rvc/processing/pipeline.py) on a started pool.

VARIABLES
    results,             \* results: one PipelineResult per sentence
    tts_to_rvc_queue,    \* the hand-off queue of process()
    tts_complete_event,  \* tts_complete_event
    submitted_count,     \* submitted_count[0]
    prodI,               \* the loop index of _tts_producer
    subDone,             \* _rvc_submitter has returned
    ppc,                 \* where process() is
    stats,               \* the PipelineStats process() returns
    gar_elapsed,         \* get_all_results: time.time() - start_time
    ttsRaised,           \* history: the units whose synthesis raised
    jobOut               \* history: the output path of the job submitted for a unit

pipeVars == <<results, tts_to_rvc_queue, tts_complete_event, submitted_count, prodI, subDone,
              ppc, stats, gar_elapsed, ttsRaised, jobOut>>

\* the timeout process() passes to get_all_results
MaxTimeout == 2

\* len(sentences): every sentence may become one job of the pool
num_sentences == MaxJobs

Units == 0 .. (num_sentences - 1)

\* os.path.join(self.tts_output_dir, f"fragment_{i}.wav")
TtsOutput(i) == <<"spark/0", "spark/1", "spark/2", "spark/3", "spark/4", "spark/5">>[i + 1]

\* os.path.join(self.rvc_output_dir, f"fragment_{i}.wav")
RvcOutput(i) == <<"rvc/0", "rvc/1", "rvc/2", "rvc/3", "rvc/4", "rvc/5">>[i + 1]

\* PipelineResult(fragment_id=i, sentence="")
PipelineResult(i) ==
    [fragment_id |-> i, tts_path |-> None, rvc_path |-> None, tts_success |-> FALSE,
     rvc_success |-> FALSE, rvc_worker_id |-> DefaultWorkerId, error |-> None]

\* PipelineStats(total_sentences=n)
PipelineStats(n) ==
    [total_sentences |-> n, tts_completed |-> 0, tts_failed |-> 0, rvc_completed |-> 0,
     rvc_failed |-> 0]

\* a pool of n workers after start() has returned True, all workers warmed up
PoolStarted(n) ==
    /\ procs = [i \in 1 .. n |->
                   [NewProcess(i - 1) EXCEPT !.st = "loop", !.ready = TRUE]]
    /\ workers = [i \in 1 .. n |-> i]
    /\ ready_events = [i \in 1 .. n |-> i]
    /\ job_queue = <<>>
    /\ result_queue = <<>>
    /\ shutdown_event = FALSE
    /\ job_counter = 0
    /\ is_running = TRUE
    /\ ctl = "idle"
    /\ ctlIdx = n
    /\ fromStart = FALSE
    /\ startRet = "True"
    /\ startTimedOut = FALSE
    /\ started = TRUE
    /\ initFailed = {}
    /\ initOk = 0 .. (n - 1)
    /\ unreadyAtTimeout = FALSE
    /\ jobsAtShutdown = 0
    /\ killedAny = FALSE
    /\ delivered = <<>>
    /\ submitRet = None
    /\ secondShutdown = FALSE

\* the pool after initialize(): RVCServer(num_workers=...).start()
PoolRunning == PoolStarted(num_workers)

\* process() up to the start of the two threads, l.277-333
PipeInit ==
    /\ results = [i \in Units |-> PipelineResult(i)]
    /\ tts_to_rvc_queue = <<>>
    /\ tts_complete_event = FALSE
    /\ submitted_count = 0
    /\ prodI = 0
    /\ subDone = FALSE
    /\ ppc = "threads"
    /\ stats = PipelineStats(num_sentences)
    /\ gar_elapsed = 0
    /\ ttsRaised = {}
    /\ jobOut = [i \in Units |-> None]

\* the pipeline while another component is studied: process() has not
\* been called
PipeIdle ==
    /\ results = <<>>
    /\ tts_to_rvc_queue = <<>>
    /\ tts_complete_event = FALSE
    /\ submitted_count = 0
    /\ prodI = 0
    /\ subDone = FALSE
    /\ ppc = "idle"
    /\ stats = <<>>
    /\ gar_elapsed = 0
    /\ ttsRaised = {}
    /\ jobOut = <<>>

\* one turn of the loop of _tts_producer, l.185-215
TtsProduce(raises) ==
    /\ prodI < num_sentences
    /\ IF raises
       THEN /\ results' = [results EXCEPT ![prodI].tts_success = FALSE, ![prodI].error = "E"]
            /\ tts_to_rvc_queue' = Append(tts_to_rvc_queue, <<prodI, None, "E">>)
            /\ ttsRaised' = ttsRaised \cup {prodI}
       ELSE /\ results' = [results EXCEPT ![prodI].tts_path = TtsOutput(prodI),
                                          ![prodI].tts_success = TRUE]
            /\ tts_to_rvc_queue' = Append(tts_to_rvc_queue, <<prodI, TtsOutput(prodI), None>>)
            /\ UNCHANGED ttsRaised
    /\ prodI' = prodI + 1
    /\ UNCHANGED <<tts_complete_event, submitted_count, subDone, ppc, stats, gar_elapsed, jobOut>>
    /\ UNCHANGED poolVars

\* tts_complete_event.set(), l.217
TtsComplete ==
    /\ prodI = num_sentences
    /\ ~tts_complete_event
    /\ tts_complete_event' = TRUE
    /\ UNCHANGED <<results, tts_to_rvc_queue, submitted_count, prodI, subDone, ppc, stats,
                   gar_elapsed,
                   ttsRaised, jobOut>>
    /\ UNCHANGED poolVars

\* a plausible slip: the submitter is started after tts_thread.join()
SubmitterMayGetAfterProducer == ~subDone /\ tts_to_rvc_queue # <<>> /\ tts_complete_event

\* the submitter runs and tts_to_rvc_queue.get(timeout=0.5) has an item to return
SubmitterMayGet == ~subDone /\ tts_to_rvc_queue # <<>>

\* _rvc_submitter takes an item, l.229-245: skipped when it carries an
\* error, otherwise a job is submitted for it
SubmitterGet ==
    /\ SubmitterMayGet
    /\ LET i == Head(tts_to_rvc_queue)[1]
           tts_path == Head(tts_to_rvc_queue)[2]
           error == Head(tts_to_rvc_queue)[3]
       IN IF error # None \/ tts_path = None
          THEN UNCHANGED <<submitted_count, jobOut>> /\ UNCHANGED poolVars
          ELSE /\ is_running
               /\ submit_job(RvcOutput(i))
               /\ submitted_count' = submitted_count + 1
               /\ jobOut' = [jobOut EXCEPT ![i] = RvcOutput(i)]
    /\ tts_to_rvc_queue' = Tail(tts_to_rvc_queue)
    /\ UNCHANGED <<results, tts_complete_event, prodI, subDone, ppc, stats, gar_elapsed, ttsRaised>>

\* a plausible slip: the handler of Empty does not look at the queue again
SubmitterMayExitOnEvent == tts_complete_event

\* "if tts_complete_event.is_set() and tts_to_rvc_queue.empty(): break"
SubmitterMayExit == tts_complete_event /\ tts_to_rvc_queue = <<>>

\* _rvc_submitter finds the queue empty after the producer's event, l.247-249
SubmitterExit ==
    /\ ~subDone
    /\ SubmitterMayExit
    /\ subDone' = TRUE
    /\ UNCHANGED <<results, tts_to_rvc_queue, tts_complete_event, submitted_count, prodI, ppc,
                   stats, gar_elapsed, ttsRaised, jobOut>>
    /\ UNCHANGED poolVars

\* tts_thread.join(); rvc_thread.join(), l.336-337
JoinThreads ==
    /\ ppc = "threads"
    /\ tts_complete_event
    /\ subDone
    /\ ppc' = "collect"
    /\ UNCHANGED <<results, tts_to_rvc_queue, tts_complete_event, submitted_count, prodI,
                   subDone, stats, gar_elapsed, ttsRaised, jobOut>>
    /\ UNCHANGED poolVars

\* a plausible slip: the loop gives up before the deadline
GarExpiredAtOnce(elapsed, timeout) == TRUE

\* "remaining = timeout - (time.time() - start_time); if remaining <= 0",
\* rvc_server.py l.409-410
GarExpired(elapsed, timeout) == timeout - elapsed <= 0

\* one turn of get_all_results that gets a Result, rvc_server.py l.408-416
GetAllResultsGet ==
    /\ ppc = "collect"
    /\ Len(delivered) < submitted_count
    /\ ~GarExpired(gar_elapsed, MaxTimeout)
    /\ result_queue # <<>>
    /\ get_result
    /\ UNCHANGED pipeVars

\* time passes while get_all_results runs: in get_result(timeout=min(remaining,
\* 1.0)) on an empty queue, l.414, or between two turns
GetAllResultsWait ==
    /\ ppc = "collect"
    /\ Len(delivered) < submitted_count
    /\ ~GarExpired(gar_elapsed, MaxTimeout)
    /\ gar_elapsed' = gar_elapsed + 1
    /\ UNCHANGED <<results, tts_to_rvc_queue, tts_complete_event, submitted_count, prodI,
                   subDone, ppc, stats, ttsRaised, jobOut>>
    /\ UNCHANGED poolVars

\* "for rvc_result in rvc_results", pipeline.py l.348-356
RECURSIVE MapResults(_, _)
MapResults(res, rvc_results) ==
    IF rvc_results = <<>> THEN res
    ELSE LET rvc_result == Head(rvc_results)
             idx == rvc_result.job_id
         IN MapResults(
              IF 0 <= idx /\ idx < num_sentences
              THEN [res EXCEPT ![idx].rvc_success = rvc_result.success,
                               ![idx].rvc_path = rvc_result.output_path,
                               ![idx].rvc_worker_id = rvc_result.worker_id,
                               ![idx].error = IF ~rvc_result.success /\ rvc_result.error # None
                                              THEN rvc_result.error ELSE @]
              ELSE res,
              Tail(rvc_results))

\* "for r in results", l.359-367
CalcStats(res) ==
    [total_sentences |-> num_sentences,
     tts_completed |-> Cardinality({i \in Units : res[i].tts_success}),
     tts_failed |-> Cardinality({i \in Units : ~res[i].tts_success}),
     rvc_completed |-> Cardinality({i \in Units : res[i].rvc_success}),
     rvc_failed |-> Cardinality({i \in Units : ~res[i].rvc_success /\ res[i].tts_success})]

\* get_all_results returns (all expected Results, or the timeout), and
\* process() maps the Results and computes the statistics, l.342-371
FinishProcess(timedOut) ==
    /\ ppc = "collect"
    /\ timedOut <=> (Len(delivered) < submitted_count)
    /\ timedOut => GarExpired(gar_elapsed, MaxTimeout)
    /\ results' = MapResults(results, delivered)
    /\ stats' = CalcStats(results')
    /\ ppc' = "done"
    /\ UNCHANGED <<tts_to_rvc_queue, tts_complete_event, submitted_count, prodI, subDone,
                   gar_elapsed, ttsRaised, jobOut>>
    /\ UNCHANGED poolVars

\* process() is called again on the same pipeline, l.277-333: new results,
\* a new hand-off queue, a new event and a new count; the pool is not
\* touched (its job counter and its queues stay as the last call left them).
\* delivered holds the Results the running call has collected (rvc_results).
ProcessAgain ==
    /\ ppc = "done"
    /\ results' = [i \in Units |-> PipelineResult(i)]
    /\ tts_to_rvc_queue' = <<>>
    /\ tts_complete_event' = FALSE
    /\ submitted_count' = 0
    /\ prodI' = 0
    /\ subDone' = FALSE
    /\ ppc' = "threads"
    /\ stats' = PipelineStats(num_sentences)
    /\ gar_elapsed' = 0
    /\ ttsRaised' = {}
    /\ jobOut' = [i \in Units |-> None]
    /\ delivered' = <<>>
    /\ UNCHANGED <<procs, workers, ready_events, job_queue, result_queue, shutdown_event,
                   job_counter, is_running, ctlVars, poolHist>>

----------------------------------------------------------------------------
\* The persistent-worker protocol of one request: one persistent_tts_worker,
\* the shared hand-off queue and the persistent_rvc_worker threads
\* (src/rvc/processing/workers.py), set up as run_persistent_workers_test
\* does (src/tools/test_persistent_workers.py).

VARIABLES
    sentence_queue,        \* the PriorityQueue of sentence indices still to synthesise
    pw_tts_to_rvc_queue,   \* the request's tts_to_rvc_queue
    rvc_results_queue,     \* the request's rvc_results_queue
    tts_complete_events,   \* one Event per TTS worker
    rvc_complete_events,   \* one Event per RVC worker
    processing_complete,   \* the Event the caller waits for
    ttsW,                  \* the TTS worker: where it is, the sentence in hand, sentinels put
    rvcW                   \* the RVC workers: where each one is and the item in hand

pwVars == <<sentence_queue, pw_tts_to_rvc_queue, rvc_results_queue, tts_complete_events,
            rvc_complete_events, processing_complete, ttsW, rvcW>>

\* --num-rvc-workers, default 2
pw_num_rvc_workers == 2
\* number of sentences of the request
MaxSentences == 2

RvcWorkerIds == 0 .. (pw_num_rvc_workers - 1)
SentenceIds == 0 .. (MaxSentences - 1)

\* all(event.is_set() for event in events)
AllSet(events) == \A k \in DOMAIN events : events[k]

\* the 4-tuple or 5-tuple the TTS worker puts on the hand-off queue
TtsItem(global_idx, raises) ==
    [i |-> global_idx,
     tts_path |-> IF raises THEN None ELSE "tts",
     error |-> IF raises THEN "E" ELSE None]

\* the tuple an RVC worker puts on rvc_results_queue
RvcResultTuple(i, success) == [i |-> i, success |-> success]

\* the queues and events run_persistent_workers_test creates, the TTS job and
\* the RVC jobs put on the workers' job queues
PwInit ==
    /\ sentence_queue = [k \in 1 .. MaxSentences |-> k - 1]
    /\ pw_tts_to_rvc_queue = <<>>
    /\ rvc_results_queue = <<>>
    /\ tts_complete_events = <<FALSE>>
    /\ rvc_complete_events = [w \in RvcWorkerIds |-> FALSE]
    /\ processing_complete = FALSE
    /\ ttsW = [pc |-> "wait", cur |-> <<>>, sent |-> 0]
    /\ rvcW = [w \in RvcWorkerIds |-> [pc |-> "wait", item |-> QNone]]

\* no request has been set up
PwIdle ==
    /\ sentence_queue = <<>>
    /\ pw_tts_to_rvc_queue = <<>>
    /\ rvc_results_queue = <<>>
    /\ tts_complete_events = <<>>
    /\ rvc_complete_events = <<>>
    /\ processing_complete = FALSE
    /\ ttsW = <<>>
    /\ rvcW = <<>>

(* ------------------------ persistent_tts_worker ------------------------ *)

\* job = job_queue.get(timeout=1.0); active_event.set(); the job is unpacked
TtsTakeJob ==
    /\ ttsW.pc = "wait"
    /\ ttsW' = [ttsW EXCEPT !.pc = "loop"]
    /\ UNCHANGED <<sentence_queue, pw_tts_to_rvc_queue, rvc_results_queue,
                   tts_complete_events, rvc_complete_events, processing_complete, rvcW>>

\* "with queue_lock: if sentence_queue.empty(): break; ... = sentence_queue.get()"
TtsNextSentence ==
    /\ ttsW.pc = "loop"
    /\ IF sentence_queue = <<>>
       THEN /\ ttsW' = [ttsW EXCEPT !.pc = "complete"]
            /\ UNCHANGED sentence_queue
       ELSE /\ ttsW' = [ttsW EXCEPT !.pc = "synth", !.cur = <<Head(sentence_queue)>>]
            /\ sentence_queue' = Tail(sentence_queue)
    /\ UNCHANGED <<pw_tts_to_rvc_queue, rvc_results_queue, tts_complete_events,
                   rvc_complete_events, processing_complete, rvcW>>

\* tts_client.inference(...), sf.write(...), tts_to_rvc_queue.put(4-tuple); or
\* one of them raises and the 5-tuple with the error is put
TtsSynth(raises) ==
    /\ ttsW.pc = "synth"
    /\ pw_tts_to_rvc_queue' = Append(pw_tts_to_rvc_queue, TtsItem(ttsW.cur[1], raises))
    /\ ttsW' = [ttsW EXCEPT !.pc = "loop", !.cur = <<>>]
    /\ UNCHANGED <<sentence_queue, rvc_results_queue, tts_complete_events,
                   rvc_complete_events, processing_complete, rvcW>>

\* tts_complete_events[worker_id].set()
TtsSetComplete ==
    /\ ttsW.pc = "complete"
    /\ tts_complete_events' = [tts_complete_events EXCEPT ![1] = TRUE]
    /\ ttsW' = [ttsW EXCEPT !.pc = "sentinels"]
    /\ UNCHANGED <<sentence_queue, pw_tts_to_rvc_queue, rvc_results_queue,
                   rvc_complete_events, processing_complete, rvcW>>

\* "if all(event.is_set() ...): for _ in range(num_rvc_workers):
\* tts_to_rvc_queue.put(None)", one put per step, then mark_tts_worker_idle
TtsPutSentinel ==
    /\ ttsW.pc = "sentinels"
    /\ IF AllSet(tts_complete_events) /\ ttsW.sent < pw_num_rvc_workers
       THEN /\ pw_tts_to_rvc_queue' = Append(pw_tts_to_rvc_queue, QNone)
            /\ ttsW' = [ttsW EXCEPT !.sent = @ + 1]
       ELSE /\ ttsW' = [ttsW EXCEPT !.pc = "idle"]
            /\ UNCHANGED pw_tts_to_rvc_queue
    /\ UNCHANGED <<sentence_queue, rvc_results_queue, tts_complete_events,
                   rvc_complete_events, processing_complete, rvcW>>

(* ------------------------ persistent_rvc_worker ------------------------ *)

\* job = job_queue.get(timeout=1.0); active_event.set(); the job is unpacked
RvcTakeJob(w) ==
    /\ rvcW[w].pc = "wait"
    /\ rvcW' = [rvcW EXCEPT ![w].pc = "get"]
    /\ UNCHANGED <<sentence_queue, pw_tts_to_rvc_queue, rvc_results_queue,
                   tts_complete_events, rvc_complete_events, processing_complete, ttsW>>

\* item = tts_to_rvc_queue.get(timeout=0.5) returns an item: None ends the
\* inner loop
RvcGet(w) ==
    /\ rvcW[w].pc = "get"
    /\ pw_tts_to_rvc_queue # <<>>
    /\ pw_tts_to_rvc_queue' = Tail(pw_tts_to_rvc_queue)
    /\ rvcW' = IF Head(pw_tts_to_rvc_queue) = QNone
               THEN [rvcW EXCEPT ![w].pc = "finish"]
               ELSE [rvcW EXCEPT ![w].pc = "item", ![w].item = Head(pw_tts_to_rvc_queue)]
    /\ UNCHANGED <<sentence_queue, rvc_results_queue, tts_complete_events,
                   rvc_complete_events, processing_complete, ttsW>>

\* tts_to_rvc_queue.get(timeout=0.5) raises Empty: control is in the handler
RvcGetEmpty(w) ==
    /\ rvcW[w].pc = "get"
    /\ pw_tts_to_rvc_queue = <<>>
    /\ rvcW' = [rvcW EXCEPT ![w].pc = "empty"]
    /\ UNCHANGED <<sentence_queue, pw_tts_to_rvc_queue, rvc_results_queue,
                   tts_complete_events, rvc_complete_events, processing_complete, ttsW>>

\* "except Empty: if all(event.is_set() for event in tts_complete_events):
\* break; continue"
RvcCheckTtsComplete(w) ==
    /\ rvcW[w].pc = "empty"
    /\ rvcW' = [rvcW EXCEPT ![w].pc = IF AllSet(tts_complete_events) THEN "finish" ELSE "get"]
    /\ UNCHANGED <<sentence_queue, pw_tts_to_rvc_queue, rvc_results_queue,
                   tts_complete_events, rvc_complete_events, processing_complete, ttsW>>

\* the item in hand is answered: a failure tuple for a TTS error, for a
\* missing TTS file and for a conversion that raised; otherwise
\* success = rvc_saved
RvcHandle(w, converted) ==
    /\ rvcW[w].pc = "item"
    /\ rvc_results_queue' =
           Append(rvc_results_queue,
                  RvcResultTuple(rvcW[w].item.i, rvcW[w].item.error = None /\ converted))
    /\ rvcW' = [rvcW EXCEPT ![w].pc = "get", ![w].item = QNone]
    /\ UNCHANGED <<sentence_queue, pw_tts_to_rvc_queue, tts_complete_events,
                   rvc_complete_events, processing_complete, ttsW>>

\* rvc_complete_events[worker_id].set()
RvcSetComplete(w) ==
    /\ rvcW[w].pc = "finish"
    /\ rvc_complete_events' = [rvc_complete_events EXCEPT ![w] = TRUE]
    /\ rvcW' = [rvcW EXCEPT ![w].pc = "check"]
    /\ UNCHANGED <<sentence_queue, pw_tts_to_rvc_queue, rvc_results_queue,
                   tts_complete_events, processing_complete, ttsW>>

\* "if all(event.is_set() for event in rvc_complete_events):
\* processing_complete.set()", then mark_rvc_worker_idle
RvcCheckAllComplete(w) ==
    /\ rvcW[w].pc = "check"
    /\ processing_complete' = (processing_complete \/ AllSet(rvc_complete_events))
    /\ rvcW' = [rvcW EXCEPT ![w].pc = "idle"]
    /\ UNCHANGED <<sentence_queue, pw_tts_to_rvc_queue, rvc_results_queue,
                   tts_complete_events, rvc_complete_events, ttsW>>

----------------------------------------------------------------------------
\* The request handlers that use the pool: VoiceServicer._run_rvc
\* (src/rvc/grpc/voice_server.py), run_rvc (src/rvc/api/voice_api.py) and
\* RVCServicer.Convert (src/rvc/grpc/rvc_grpc_server.py). Each submits one
\* job and then calls get_result(timeout=60.0).

VARIABLES
    callers            \* per handler call: where it is, the job id submit_job
                       \* returned, and what get_result returned

callVars == <<callers>>

\* handler calls that are followed
MaxCallers == 2

CallerIds == 1 .. MaxCallers

\* no handler call has been made
CallIdle == callers = <<>>

CallInit == callers = [c \in CallerIds |-> [pc |-> "idle", job_id |-> -1, got |-> <<>>]]

\* job_id = submit_job(...), voice_server.py l.122-132
CallerSubmit(c) ==
    /\ callers[c].pc = "idle"
    /\ is_running
    /\ submit_job("out")
    /\ callers' = [callers EXCEPT ![c].pc = "wait", ![c].job_id = job_counter]

\* result = get_result(timeout=60.0) returns a Result, l.135
CallerGetResult(c) ==
    /\ callers[c].pc = "wait"
    /\ result_queue # <<>>
    /\ get_result
    /\ callers' = [callers EXCEPT ![c].pc = "done", ![c].got = <<Head(result_queue)>>]

\* get_result(timeout=60.0) returns None: the handler raises "Timeout", l.141-142
CallerTimeout(c) ==
    /\ callers[c].pc = "wait"
    /\ result_queue = <<>>
    /\ callers' = [callers EXCEPT ![c].pc = "done"]
    /\ UNCHANGED poolVars

otherThanPool == <<bufVars, mgrVars, opsVars, ttsVars, pipeVars, pwVars, callVars>>
otherThanBuf == <<poolVars, mgrVars, opsVars, ttsVars, pipeVars, pwVars, callVars>>
otherThanMgr == <<bufVars, poolVars, pipeVars, opsVars, ttsVars, pwVars, callVars>>
otherThanOps == <<bufVars, poolVars, pipeVars, ttsVars, pwVars, callVars>>
otherThanTts == <<bufVars, poolVars, pipeVars, opsVars, pwVars, callVars>>
otherThanPipe == <<bufVars, mgrVars, opsVars, ttsVars, pwVars, callVars>>
otherThanPw == <<bufVars, poolVars, mgrVars, opsVars, ttsVars, pipeVars, callVars>>
otherThanCall == <<bufVars, mgrVars, opsVars, ttsVars, pipeVars, pwVars>>

NextPool ==
    \/ \E p \in 1 .. Len(procs) : WorkerInitOk(p) /\ UNCHANGED otherThanPool
    \/ \E p \in 1 .. Len(procs) : WorkerInitFail(p) /\ UNCHANGED otherThanPool
    \/ \E p \in 1 .. Len(procs) : WorkerLoop(p) /\ UNCHANGED otherThanPool
    \/ \E p \in 1 .. Len(procs) : WorkerGet(p) /\ UNCHANGED otherThanPool
    \/ \E p \in 1 .. Len(procs) : WorkerGetEmpty(p) /\ UNCHANGED otherThanPool
    \/ \E p \in 1 .. Len(procs), raises \in BOOLEAN :
           WorkerProcess(p, raises) /\ UNCHANGED otherThanPool
    \/ Start /\ UNCHANGED otherThanPool
    \/ StartTimerExpires /\ UNCHANGED otherThanPool
    \/ StartWait /\ UNCHANGED otherThanPool
    \/ Shutdown /\ UNCHANGED otherThanPool
    \/ ShutdownSignal /\ UNCHANGED otherThanPool
    \/ \E timesOut \in BOOLEAN : ShutdownJoin(timesOut) /\ UNCHANGED otherThanPool
    \/ \E out \in PoolOutPaths : submit_job(out) /\ UNCHANGED otherThanPool
    \/ get_result /\ UNCHANGED otherThanPool

NextBuf ==
    \/ BufAdd /\ UNCHANGED otherThanBuf
    \/ get_next /\ UNCHANGED otherThanBuf
    \/ clear /\ UNCHANGED otherThanBuf
    \/ BufTick /\ UNCHANGED otherThanBuf

NextMgr ==
    \/ \E w \in WorkerIds : get_rvc_worker(w) /\ UNCHANGED otherThanMgr
    \/ \E t \in 1 .. Len(threads) : PutJob(t) /\ UNCHANGED otherThanMgr
    \/ \E t \in 1 .. Len(threads) : ThreadGet(t) /\ UNCHANGED otherThanMgr
    \/ \E t \in 1 .. Len(threads) : ThreadSetActive(t) /\ UNCHANGED otherThanMgr
    \/ \E t \in 1 .. Len(threads) : ThreadComplete(t) /\ UNCHANGED otherThanMgr
    \/ MonitorWake /\ UNCHANGED otherThanMgr
    \/ MonitorLock /\ UNCHANGED otherThanMgr
    \/ MonitorScan /\ UNCHANGED otherThanMgr
    \/ \E timesOut \in BOOLEAN : MonitorJoin(timesOut) /\ UNCHANGED otherThanMgr
    \/ MgrTick /\ UNCHANGED otherThanMgr

NextPipe ==
    \/ \E raises \in BOOLEAN : TtsProduce(raises) /\ UNCHANGED otherThanPipe
    \/ TtsComplete /\ UNCHANGED otherThanPipe
    \/ SubmitterGet /\ UNCHANGED otherThanPipe
    \/ SubmitterExit /\ UNCHANGED otherThanPipe
    \/ JoinThreads /\ UNCHANGED otherThanPipe
    \/ GetAllResultsGet /\ UNCHANGED otherThanPipe
    \/ GetAllResultsWait /\ UNCHANGED otherThanPipe
    \/ \E timedOut \in BOOLEAN : FinishProcess(timedOut) /\ UNCHANGED otherThanPipe
    \/ \E p \in 1 .. Len(procs) : WorkerLoop(p) /\ UNCHANGED <<pipeVars, otherThanPipe>>
    \/ \E p \in 1 .. Len(procs) : WorkerGet(p) /\ UNCHANGED <<pipeVars, otherThanPipe>>
    \/ \E p \in 1 .. Len(procs) : WorkerGetEmpty(p) /\ UNCHANGED <<pipeVars, otherThanPipe>>
    \/ \E p \in 1 .. Len(procs), raises \in BOOLEAN :
           WorkerProcess(p, raises) /\ UNCHANGED <<pipeVars, otherThanPipe>>

vars == <<bufVars, poolVars, mgrVars, opsVars, ttsVars, pipeVars, pwVars, callVars>>

InitPool == PoolInit /\ BufIdle /\ MgrIdle /\ PipeIdle /\ PwIdle /\ CallIdle
InitBuf == BufInit /\ PoolIdle /\ MgrIdle /\ PipeIdle /\ PwIdle /\ CallIdle
InitMgr == MgrInit /\ BufIdle /\ PoolIdle /\ PipeIdle /\ PwIdle /\ CallIdle
InitPipe == PipeInit /\ PoolRunning /\ BufIdle /\ MgrIdle /\ PwIdle /\ CallIdle

SpecPool == InitPool /\ [][NextPool]_vars

SpecBuf == InitBuf /\ [][NextBuf]_vars

SpecMgr == InitMgr /\ [][NextMgr]_vars

SpecPipe == InitPipe /\ [][NextPipe]_vars

\* the manager while WorkerManager.shutdown is called, once
NextMgrShutdown ==
    \/ NextMgr
    \/ ManagerShutdown /\ UNCHANGED otherThanOps
    \/ ManagerShutdownPut /\ UNCHANGED otherThanOps
    \/ ManagerShutdownJoin /\ UNCHANGED otherThanOps
    \/ \E timesOut \in BOOLEAN : ManagerShutdownReturn(timesOut) /\ UNCHANGED otherThanOps

SpecMgrShutdown == InitMgr /\ [][NextMgrShutdown]_vars

\* the manager while its unload delay is changed
NextMgrDelay ==
    \/ NextMgr
    \/ \E d \in 0 .. MaxDelay : update_unload_delay(d) /\ UNCHANGED <<opsVars, otherThanOps>>

SpecMgrDelay == InitMgr /\ [][NextMgrDelay]_vars

\* the manager's TTS workers, with unloading disabled (unload_delay 0): the
\* threads take their jobs as the RVC threads do (workers.py l.69-77)
NextTts ==
    \/ \E w \in WorkerIds : get_tts_worker(w) /\ UNCHANGED otherThanTts
    \/ \E t \in 1 .. Len(threads), ready \in BOOLEAN :
           TtsThreadInit(t, ready) /\ UNCHANGED otherThanTts
    \/ \E t \in 1 .. Len(threads) : PutJob(t) /\ UNCHANGED otherThanMgr
    \/ \E t \in 1 .. Len(threads) : ThreadGet(t) /\ UNCHANGED otherThanMgr
    \/ \E t \in 1 .. Len(threads) : ThreadSetActive(t) /\ UNCHANGED otherThanMgr
    \/ \E t \in 1 .. Len(threads) : TtsThreadComplete(t) /\ UNCHANGED otherThanTts
    \/ MonitorWake /\ UNCHANGED otherThanMgr
    \/ MgrTick /\ UNCHANGED otherThanMgr

InitTts == MgrIdle /\ BufIdle /\ PoolIdle /\ PipeIdle /\ PwIdle /\ CallIdle

SpecTts == InitTts /\ [][NextTts]_vars

\* the module's accessor functions: no manager exists until the first call
\* (until then the manager's variables hold what __init__ will give them);
\* once it exists, workers are requested from it and its monitor runs
NextGlobal ==
    \/ \E arg \in DelayArgs : get_worker_manager(arg) /\ UNCHANGED otherThanOps
    \/ \E delay \in -1 .. MaxDelay : set_worker_unload_delay(delay) /\ UNCHANGED otherThanOps
    \/ \E w \in WorkerIds :
           worker_manager # None /\ get_rvc_worker(w) /\ UNCHANGED otherThanMgr
    \/ worker_manager # None /\ MonitorWake /\ UNCHANGED otherThanMgr
    \/ worker_manager # None /\ MonitorLock /\ UNCHANGED otherThanMgr
    \/ worker_manager # None /\ MonitorScan /\ UNCHANGED otherThanMgr
    \/ worker_manager # None /\ MgrTick /\ UNCHANGED otherThanMgr

InitGlobal == MgrIdle /\ BufIdle /\ PoolIdle /\ PipeIdle /\ PwIdle /\ CallIdle

SpecGlobal == InitGlobal /\ [][NextGlobal]_vars

\* the thread that runs process() keeps running, and time passes
SpecPipeLive ==
    /\ SpecPipe
    /\ WF_vars(GetAllResultsWait /\ UNCHANGED otherThanPipe)
    /\ WF_vars(\E timedOut \in BOOLEAN : FinishProcess(timedOut) /\ UNCHANGED otherThanPipe)

\* a manager whose callers do not create a worker again once the monitor
\* has unloaded it
NextMgrOnce ==
    \/ \E w \in WorkerIds :
           /\ w \in DOMAIN rvc_workers \/ threads = <<>>
           /\ get_rvc_worker(w)
           /\ UNCHANGED otherThanMgr
    \/ \E t \in 1 .. Len(threads) : PutJob(t) /\ UNCHANGED otherThanMgr
    \/ \E t \in 1 .. Len(threads) : ThreadGet(t) /\ UNCHANGED otherThanMgr
    \/ \E t \in 1 .. Len(threads) : ThreadSetActive(t) /\ UNCHANGED otherThanMgr
    \/ \E t \in 1 .. Len(threads) : ThreadComplete(t) /\ UNCHANGED otherThanMgr
    \/ MonitorWake /\ UNCHANGED otherThanMgr
    \/ MonitorLock /\ UNCHANGED otherThanMgr
    \/ MonitorScan /\ UNCHANGED otherThanMgr
    \/ \E timesOut \in BOOLEAN : MonitorJoin(timesOut) /\ UNCHANGED otherThanMgr
    \/ MgrTick /\ UNCHANGED otherThanMgr

\* the monitor thread keeps running
SpecMgrLive ==
    /\ InitMgr
    /\ [][NextMgrOnce]_vars
    /\ WF_vars(MonitorWake /\ UNCHANGED otherThanMgr)
    /\ WF_vars(MonitorLock /\ UNCHANGED otherThanMgr)
    /\ WF_vars(MonitorScan /\ UNCHANGED otherThanMgr)
    /\ WF_vars(\E timesOut \in BOOLEAN : MonitorJoin(timesOut) /\ UNCHANGED otherThanMgr)

\* time.time() runs from 0 to MaxStopClock while shutdown() is followed
MaxStopClock == 2

\* WorkerManager.shutdown is called once on a manager with one worker
NextMgrStop ==
    \/ \E w \in WorkerIds :
           /\ w \in DOMAIN rvc_workers \/ threads = <<>>
           /\ get_rvc_worker(w)
           /\ UNCHANGED otherThanMgr
    \/ \E t \in 1 .. Len(threads) : PutJob(t) /\ UNCHANGED otherThanMgr
    \/ \E t \in 1 .. Len(threads) : ThreadGet(t) /\ UNCHANGED otherThanMgr
    \/ \E t \in 1 .. Len(threads) : ThreadSetActive(t) /\ UNCHANGED otherThanMgr
    \/ \E t \in 1 .. Len(threads) : ThreadComplete(t) /\ UNCHANGED otherThanMgr
    \/ MonitorWake /\ UNCHANGED otherThanMgr
    \/ MonitorLock /\ UNCHANGED otherThanMgr
    \/ MonitorScan /\ UNCHANGED otherThanMgr
    \/ \E timesOut \in BOOLEAN : MonitorJoin(timesOut) /\ UNCHANGED otherThanMgr
    \/ mgrClock < MaxStopClock /\ MgrTick /\ UNCHANGED otherThanMgr
    \/ ManagerShutdown /\ UNCHANGED otherThanOps
    \/ ManagerShutdownPut /\ UNCHANGED otherThanOps
    \/ ManagerShutdownJoin /\ UNCHANGED otherThanOps
    \/ \E timesOut \in BOOLEAN : ManagerShutdownReturn(timesOut) /\ UNCHANGED otherThanOps

\* a manager whose monitor is at work
InitMgrStop == InitMgr /\ unload_delay = 1

\* the monitor thread and the thread that called shutdown keep running; the
\* worker threads need not
SpecMgrStop ==
    /\ InitMgrStop
    /\ [][NextMgrStop]_vars
    /\ WF_vars(MonitorWake /\ UNCHANGED otherThanMgr)
    /\ WF_vars(MonitorLock /\ UNCHANGED otherThanMgr)
    /\ WF_vars(MonitorScan /\ UNCHANGED otherThanMgr)
    /\ WF_vars(\E timesOut \in BOOLEAN : MonitorJoin(timesOut) /\ UNCHANGED otherThanMgr)
    /\ WF_vars(ManagerShutdownPut /\ UNCHANGED otherThanOps)
    /\ WF_vars(ManagerShutdownJoin /\ UNCHANGED otherThanOps)
    /\ WF_vars(\E timesOut \in BOOLEAN : ManagerShutdownReturn(timesOut) /\ UNCHANGED otherThanOps)

\* a started pool that is shut down and started again
NextRestart ==
    \/ \E p \in 1 .. Len(procs) : WorkerInitOk(p) /\ UNCHANGED otherThanPool
    \/ \E p \in 1 .. Len(procs) : WorkerLoop(p) /\ UNCHANGED otherThanPool
    \/ \E p \in 1 .. Len(procs) : WorkerGet(p) /\ UNCHANGED otherThanPool
    \/ \E p \in 1 .. Len(procs) : WorkerGetEmpty(p) /\ UNCHANGED otherThanPool
    \/ \E p \in 1 .. Len(procs), raises \in BOOLEAN :
           WorkerProcess(p, raises) /\ UNCHANGED otherThanPool
    \/ Restart /\ UNCHANGED otherThanPool
    \/ StartTimerExpires /\ UNCHANGED otherThanPool
    \/ StartWait /\ UNCHANGED otherThanPool
    \/ Shutdown /\ UNCHANGED otherThanPool
    \/ ShutdownSignal /\ UNCHANGED otherThanPool
    \/ \E timesOut \in BOOLEAN : ShutdownJoin(timesOut) /\ UNCHANGED otherThanPool
    \/ \E out \in PoolOutPaths : submit_job(out) /\ UNCHANGED otherThanPool

InitRestart == PoolRunning /\ BufIdle /\ MgrIdle /\ PipeIdle /\ PwIdle /\ CallIdle

SpecRestart == InitRestart /\ [][NextRestart]_vars

\* process() called any number of times on one initialised pipeline
NextPipeAgain ==
    \/ NextPipe
    \/ ProcessAgain /\ UNCHANGED otherThanPipe

SpecPipeAgain == InitPipe /\ [][NextPipeAgain]_vars

\* handler calls on a started pool
NextCall ==
    \/ \E c \in CallerIds : CallerSubmit(c) /\ UNCHANGED otherThanCall
    \/ \E c \in CallerIds : CallerGetResult(c) /\ UNCHANGED otherThanCall
    \/ \E c \in CallerIds : CallerTimeout(c) /\ UNCHANGED otherThanCall
    \/ \E p \in 1 .. Len(procs) : WorkerLoop(p) /\ UNCHANGED otherThanPool
    \/ \E p \in 1 .. Len(procs) : WorkerGet(p) /\ UNCHANGED otherThanPool
    \/ \E p \in 1 .. Len(procs) : WorkerGetEmpty(p) /\ UNCHANGED otherThanPool
    \/ \E p \in 1 .. Len(procs), raises \in BOOLEAN :
           WorkerProcess(p, raises) /\ UNCHANGED otherThanPool

InitCall == PoolRunning /\ CallInit /\ BufIdle /\ MgrIdle /\ PipeIdle /\ PwIdle

SpecCall == InitCall /\ [][NextCall]_vars

\* one request served by the persistent workers
NextPw ==
    \/ TtsTakeJob /\ UNCHANGED otherThanPw
    \/ TtsNextSentence /\ UNCHANGED otherThanPw
    \/ \E raises \in BOOLEAN : TtsSynth(raises) /\ UNCHANGED otherThanPw
    \/ TtsSetComplete /\ UNCHANGED otherThanPw
    \/ TtsPutSentinel /\ UNCHANGED otherThanPw
    \/ \E w \in RvcWorkerIds : RvcTakeJob(w) /\ UNCHANGED otherThanPw
    \/ \E w \in RvcWorkerIds : RvcGet(w) /\ UNCHANGED otherThanPw
    \/ \E w \in RvcWorkerIds : RvcGetEmpty(w) /\ UNCHANGED otherThanPw
    \/ \E w \in RvcWorkerIds : RvcCheckTtsComplete(w) /\ UNCHANGED otherThanPw
    \/ \E w \in RvcWorkerIds, converted \in BOOLEAN :
           RvcHandle(w, converted) /\ UNCHANGED otherThanPw
    \/ \E w \in RvcWorkerIds : RvcSetComplete(w) /\ UNCHANGED otherThanPw
    \/ \E w \in RvcWorkerIds : RvcCheckAllComplete(w) /\ UNCHANGED otherThanPw

InitPw == PwInit /\ BufIdle /\ PoolIdle /\ MgrIdle /\ PipeIdle /\ CallIdle

SpecPw == InitPw /\ [][NextPw]_vars

\* a started pool that is not shut down: callers submit jobs and fetch
\* Results, worker processes may die at any point of their loop, and every
\* process that is alive keeps running
NextCrash ==
    \/ \E p \in 1 .. Len(procs) : WorkerLoop(p) /\ UNCHANGED otherThanPool
    \/ \E p \in 1 .. Len(procs) : WorkerGet(p) /\ UNCHANGED otherThanPool
    \/ \E p \in 1 .. Len(procs) : WorkerGetEmpty(p) /\ UNCHANGED otherThanPool
    \/ \E p \in 1 .. Len(procs), raises \in BOOLEAN :
           WorkerProcess(p, raises) /\ UNCHANGED otherThanPool
    \/ \E p \in 1 .. Len(procs) : WorkerDies(p) /\ UNCHANGED otherThanPool
    \/ \E out \in PoolOutPaths : submit_job(out) /\ UNCHANGED otherThanPool
    \/ get_result /\ UNCHANGED otherThanPool

InitCrash == PoolRunning /\ BufIdle /\ MgrIdle /\ PipeIdle /\ PwIdle /\ CallIdle

SpecCrash ==
    /\ InitCrash
    /\ [][NextCrash]_vars
    /\ \A p \in 1 .. num_workers : WF_vars(WorkerStep(p) /\ UNCHANGED otherThanPool)

\* process() on a pool with a single worker; the worker process keeps running
InitPipeSingle == PipeInit /\ PoolStarted(1) /\ BufIdle /\ MgrIdle /\ PwIdle /\ CallIdle

SpecPipeSingle ==
    /\ InitPipeSingle
    /\ [][NextPipe]_vars
    /\ WF_vars(\E p \in 1 .. Len(procs) : WorkerLoop(p) /\ UNCHANGED <<pipeVars, otherThanPipe>>)
    /\ WF_vars(\E p \in 1 .. Len(procs) : WorkerGet(p) /\ UNCHANGED <<pipeVars, otherThanPipe>>)
    /\ WF_vars(\E p \in 1 .. Len(procs), raises \in BOOLEAN :
                   WorkerProcess(p, raises) /\ UNCHANGED <<pipeVars, otherThanPipe>>)

\* the pool's processes and the manager's threads, one component at a time
\* (they share no state): a component moves while the other is as constructed
NextWorkers ==
    \/ MgrIdle /\ NextPool
    \/ PoolInit /\ NextMgr

InitWorkers == PoolInit /\ MgrInit /\ BufIdle /\ PipeIdle /\ PwIdle /\ CallIdle

SpecWorkers == InitWorkers /\ [][NextWorkers]_vars

----------------------------------------------------------------------------

\* C1: when every position is added at most once (and the stream is not
\* cleared), the values get_next has returned so far are the payloads of
\* positions 0, 1, 2, ... in that order, each once; nothing is lost on the way
\* (released = returned + still queued), and once positions 0..N-1 are all
\* added and the ready queue is drained, exactly the N payloads were returned.
C1_OrderedExactlyOnce ==
    (~dupAdd /\ ~cleared) =>
        /\ Len(returned) <= MaxPos
        /\ \A i \in 1 .. Len(returned) :
               (i - 1) \in added /\ returned[i] = PathOf(i - 1)
        /\ Len(returned) + Len(queue) = next_position
        /\ \A i \in 1 .. Len(queue) : queue[i][1] = PathOf(Len(returned) + i - 1)
        /\ (added = Positions /\ queue = <<>>) => Len(returned) = MaxPos

\* Scenario B: C at 2, A at 0, B at 1, then three values returned
C1_Witness ==
    /\ heldBack = {2}
    /\ ~dupAdd
    /\ ~cleared
    /\ returned = <<"A", "B", "C">>

\* every Result created so far, in creation order
Created == delivered \o result_queue
JobIdsOf(rs) == {rs[i].job_id : i \in 1 .. Len(rs)}
AllProcsDead == \A p \in 1 .. Len(procs) : ~IsAlive(p)

\* C3: when start() has returned after exactly one worker failed its warm-up
\* and the others warmed up, it has returned False, and get_status() shows no
\* live worker and running = False.
C3_StartFailsOnWarmupFailure ==
    (ctl = "idle" /\ startRet # "None" /\ Cardinality(initFailed) = 1
        /\ Cardinality(initOk) = num_workers - 1)
    => (startRet = "False" /\ GetStatus.workers_alive = 0 /\ ~GetStatus.running)

\* C7: no job id has two Results, every Result belongs to an accepted job,
\* no Result is handed out twice, and once the pool has been shut down and
\* all its workers have ended, every accepted job has its Result.
C7_ResultLifecycle ==
    /\ \A i, j \in 1 .. Len(Created) : Created[i].job_id = Created[j].job_id => i = j
    /\ JobIdsOf(Created) \subseteq 0 .. (job_counter - 1)
    /\ (started /\ ctl = "idle" /\ ~is_running /\ AllProcsDead)
          => JobIdsOf(Created) = 0 .. (job_counter - 1)

\* C8: whenever a worker finishes the job in hand (and is not terminated), it
\* has put exactly one Result carrying that job's id and its own worker id, a
\* Result with an error has success = False, and the worker is back at the
\* top of its loop.
C8_ExecutionErrorIsolated ==
    [][\A p \in 1 .. Len(procs) :
          (procs[p].st = "busy" /\ procs'[p].st \notin {"busy", "killed"}) =>
              /\ Len(result_queue') = Len(result_queue) + 1
              /\ LET r == result_queue'[Len(result_queue')]
                 IN /\ r.job_id = procs[p].job.job_id
                    /\ r.worker_id = procs[p].worker_id
                    /\ (r.error # None) <=> ~r.success
              /\ procs'[p].st = "loop"]_vars

\* a worker has put a failed Result and, after it, another Result
C8_Witness ==
    \E i, j \in 1 .. Len(Created) :
        /\ i < j
        /\ ~Created[i].success
        /\ Created[i].error # None
        /\ Created[j].worker_id = Created[i].worker_id
        /\ Created[j].success

\* C9: when shutdown() has returned and has not terminated any worker (all
\* of which had warmed up), every job that was submitted before the call has
\* a Result.
C9_ShutdownDrains ==
    (ctl = "idle" /\ ~killedAny /\ initFailed = {})
    => (0 .. (jobsAtShutdown - 1)) \subseteq JobIdsOf(Created)

\* C10: when the startup timeout expired with a worker not yet ready, the
\* pool never becomes running, and once start() has returned it has returned
\* False and no worker process is alive.
C10_StartTimeoutAllOrNothing ==
    unreadyAtTimeout =>
        /\ ~is_running
        /\ startRet # "True"
        /\ ctl = "idle" => (startRet = "False" /\ AllProcsDead /\ workers = <<>>)

\* start() timed out on a worker that was still warming up, and that worker
\* was terminated
C10_Witness ==
    /\ unreadyAtTimeout
    /\ ctl = "idle"
    /\ startRet = "False"
    /\ \E p \in 1 .. Len(procs) : procs[p].st = "killed" /\ ~procs[p].ready
    /\ \E p \in 1 .. Len(procs) : procs[p].ready

\* C4: with unload delay D > 0, a worker that get_rvc_worker created and that
\* has had no job and no further get_rvc_worker call is no longer in the live
\* set once the idle monitor has completed a pass whose time reading was more
\* than D after the creation.
C4_IdleWorkerUnloaded ==
    \A w \in DOMAIN rvc_workers :
        (unload_delay > 0 /\ fresh[w])
        => ~(scanDone # NoTime /\ scanDone - lastGet[w] > unload_delay)

\* the Event the manager holds for worker w is set
ActiveFlag(w) == threads[rvc_active[w]].active

C6_AtMostOneInFlight ==
    /\ \A p \in 1 .. Len(procs) : procs[p].unanswered <= 1
    /\ \A t \in 1 .. Len(threads) : threads[t].inflight <= 1

\* a managed thread works on a job while a second job waits on its queue
C6_Witness ==
    \E t \in 1 .. Len(threads) :
        /\ threads[t].inflight = 1 /\ threads[t].st = "busy"
        /\ threads[t].q # <<>> /\ Head(threads[t].q) = "job"

\* C2: when process() has returned after the synthesis of exactly one unit
\* raised, every submitted job was converted successfully and every Result
\* was collected, each other unit is reported with tts_success and
\* rvc_success and with the output path of the job submitted for it, and the
\* failed unit is reported with neither.
C2_FailedUnitIsolated ==
    (/\ ppc = "done"
     /\ Cardinality(ttsRaised) = 1
     /\ Len(delivered) = submitted_count
     /\ \A j \in 1 .. Len(delivered) : delivered[j].success)
    => \A i \in Units :
          IF i \in ttsRaised
          THEN ~results[i].tts_success /\ ~results[i].rvc_success
          ELSE /\ results[i].tts_success
               /\ results[i].rvc_success
               /\ results[i].rvc_path = jobOut[i]

\* the jobs (not the None items) on a queue
JobItems(q) == SelectSeq(q, LAMBDA x : x # QNone)

\* C11: while the pool is not running no step changes the job counter or puts
\* a job on the job queue; a submit_job call ends with RuntimeError only on a
\* pool that is not running, and a call that is accepted runs on a running
\* pool and takes exactly the next job id.
C11_SubmitNotRunningRaises ==
    [][/\ ~is_running
            => (job_counter' = job_counter
                /\ Len(JobItems(job_queue')) <= Len(JobItems(job_queue)))
       /\ (submitRet' = "RuntimeError" /\ submitRet # "RuntimeError")
            => (~is_running /\ job_queue' = job_queue)
       /\ job_counter' # job_counter
            => (is_running /\ submitRet' = "Ok" /\ job_counter' = job_counter + 1)]_vars

\* submit_job raised on a pool that was shut down after it had accepted a job
C11_Witness ==
    /\ submitRet = "RuntimeError" /\ job_counter > 0
    /\ ~is_running /\ shutdown_event /\ ctl = "idle"

\* C12: get_all_results, once called, returns; what it returns has at most
\* expected_count entries, each a Result of the pool taken once, and it has
\* fewer than expected_count entries only when the total timeout has run out.
C12_GetAllResultsTerminates ==
    /\ [](ppc = "done" =>
            /\ Len(delivered) <= submitted_count
            /\ Len(delivered) < submitted_count => gar_elapsed >= MaxTimeout
            /\ Cardinality(JobIdsOf(delivered)) = Len(delivered))
    /\ (ppc = "collect" ~> ppc = "done")

\* get_all_results returned a partial list after the timeout
C12_Witness ==
    /\ ppc = "done"
    /\ Len(delivered) > 0 /\ Len(delivered) < submitted_count
    /\ gar_elapsed = MaxTimeout

\* the shutdown sentinel (None) has been put on thread t's queue: it waits
\* there up to place n, or the thread has taken it and left its loop
SentinelSent(t, n) ==
    \/ threads[t].st = "exited"
    \/ \E i \in 1 .. n : threads[t].q[i] = "stop"

\* C13: on no managed worker's job queue does a job stand behind the
\* shutdown sentinel, and no job is on the queue of a worker that has taken
\* its sentinel: no caller puts a job after the sentinel was put.
C13_NoJobAfterSentinel ==
    \A t \in 1 .. Len(threads) :
        \A j \in 1 .. Len(threads[t].q) :
            threads[t].q[j] = "job" => ~SentinelSent(t, j - 1)

\* C14: when WorkerManager.shutdown() has returned, the manager holds no
\* worker record (its live set is empty, so a later get-or-create has to
\* create a worker).
C14_ShutdownClearsRecords ==
    shut = "returned" =>
        /\ rvc_workers = EmptyDict
        /\ rvc_job_queues = EmptyDict
        /\ rvc_active = EmptyDict

\* C18: while unload_delay is <= 0, the idle monitor puts no sentinel on a
\* worker's queue and deletes no worker record.
C18_NoUnloadWhenDisabled ==
    [][unload_delay <= 0 =>
          /\ ~(mon = "scan" /\ mon' = "join")
          /\ ~(mon = "join" /\ DOMAIN rvc_workers' # DOMAIN rvc_workers)]_vars

\* C19: a call get_worker_manager(unload_delay=0), and a call
\* set_worker_unload_delay(0), leaves the manager with unload delay 0,
\* whether the call creates the manager or finds it.
C19_ZeroDelayIsKept ==
    [][(apiCall' # apiCall /\ apiCall'.arg = <<0>>) => unload_delay' = 0]_vars

\* C15: get-or-create never hands out the channel of an execution unit that
\* has already exited (for such an id it has to start a new unit with a new
\* channel).
C15_ReturnedChannelIsLive ==
    [][\A t \in 1 .. Len(threads) :
          (t \in held' /\ t \notin held) => threads[t].st # "exited"]_vars

\* the id submit_job gave the job of unit i: the units reach the submitter
\* in order, and each unit whose synthesis did not raise takes the next id
JobOf(i) == Cardinality({k \in Units : k < i /\ k \notin ttsRaised})

\* the conversion of unit i's own job was collected as a success
OwnConversionSucceeded(i) ==
    /\ i \notin ttsRaised
    /\ \E j \in 1 .. Len(delivered) :
          delivered[j].job_id = JobOf(i) /\ delivered[j].success

\* C16: when process() has returned, tts_completed + tts_failed is the
\* number of sentences, rvc_completed is the number of units whose own
\* conversion succeeded, and rvc_completed + rvc_failed = tts_completed.
C16_StatsExact ==
    ppc = "done" =>
        /\ stats.tts_completed + stats.tts_failed = stats.total_sentences
        /\ stats.total_sentences = num_sentences
        /\ stats.rvc_completed = Cardinality({i \in Units : OwnConversionSucceeded(i)})
        /\ stats.rvc_completed + stats.rvc_failed = stats.tts_completed

\* the position whose payload is path
PosOf(path) == CHOOSE p \in 0 .. 5 : PathOf(p) = path

\* C17: whenever get_next has returned the payload of position k, the
\* payloads of all positions 0..k-1 were returned before it; and as long as
\* the buffer has not been cleared, the payloads returned so far are those of
\* positions 0, 1, 2, ... in this order, without a gap and without a repeat.
C17_InOrderNoGaps ==
    /\ \A n \in 1 .. Len(returned) :
           \A j \in 0 .. (PosOf(returned[n]) - 1) :
               \E m \in 1 .. (n - 1) : returned[m] = PathOf(j)
    /\ ~cleared => \A n \in 1 .. Len(returned) : returned[n] = PathOf(n - 1)

\* position 1 was added twice while position 0 was missing and was held;
\* after position 0 came, both payloads were returned in order
C17_Witness ==
    /\ heldBack = {1}
    /\ dupAdd
    /\ ~cleared
    /\ returned = <<"A", "B">>
    /\ pending_files = EmptyDict

\* a shutdown() of the pool has run to its end
ShutdownReturned == shutdown_event /\ ctl = "idle"

\* C20: once a shutdown() has returned, is_running is false, the worker
\* list is empty and no worker process is alive; and no later step, a
\* further shutdown() in particular, puts anything on the job queue or
\* changes the event, is_running, the processes or the worker list.
C20_ShutdownIdempotent ==
    /\ [](ShutdownReturned => (~is_running /\ workers = <<>> /\ AllProcsDead))
    /\ [][ShutdownReturned =>
             /\ job_queue' = job_queue
             /\ shutdown_event' = shutdown_event
             /\ is_running' = is_running
             /\ procs' = procs
             /\ workers' = workers
             /\ ctl' = ctl]_vars

\* shutdown() was called again after a shutdown() of a pool that had run
\* jobs, one of them still queued behind the sentinels' event
C20_Witness ==
    /\ secondShutdown
    /\ ShutdownReturned
    /\ startRet = "True"
    /\ jobsAtShutdown > 0
    /\ Len(JobItems(job_queue)) > 0

\* C21: in a pool with one worker, the Results created so far are those of
\* jobs 0, 1, 2, ... in submission order and all carry worker_id 0; when
\* get_all_results has returned before its deadline it has returned one
\* Result for each submitted job id; and once the submitter is done every
\* submitted job gets its Result.
C21_SingleWorkerInOrder ==
    /\ [](\A j \in 1 .. Len(Created) :
             Created[j].worker_id = 0 /\ Created[j].job_id = j - 1)
    /\ []((ppc = "done" /\ gar_elapsed < MaxTimeout) =>
             /\ Len(delivered) = submitted_count
             /\ JobIdsOf(delivered) = 0 .. (submitted_count - 1))
    /\ (ppc = "collect" ~> Len(Created) = submitted_count)

\* three jobs went through the single worker, the second conversion failed,
\* and get_all_results returned all three before its deadline
C21_Witness ==
    /\ Len(procs) = 1
    /\ ppc = "done"
    /\ gar_elapsed < MaxTimeout
    /\ Len(delivered) = 3
    /\ ~delivered[2].success

\* an item is current (returned by get_next and not yet cleared)
Playing == current_file # None /\ playback_start_time # NoTime

\* C22: while an item of duration zero is the current item and the ready
\* queue is not empty, a get_next call made now returns the head of the
\* ready queue, whatever the time elapsed and the buffer margin.
C22_ZeroDurationNoDelay ==
    (Playing /\ current_duration = 0 /\ queue # <<>>)
        => OrderedGetNext(BufState, clock).result = Head(queue)[1]

\* C23: while an item is current and less than its duration plus the buffer
\* margin has elapsed since it was returned, a get_next call returns None and
\* changes nothing; a call made later clears the current item and returns
\* the head of the ready queue, which becomes current, or None when the
\* ready queue is empty. So no step returns an item earlier than that, and
\* the item a step returns is the head of the ready queue.
C23_Pacing ==
    /\ [](Playing =>
             LET r == OrderedGetNext(BufState, clock) IN
               IF clock - playback_start_time < current_duration + buffer_time
               THEN r.result = None /\ r.b = BufState
               ELSE IF queue # <<>>
                    THEN /\ r.result = Head(queue)[1]
                         /\ r.b.queue = Tail(queue)
                         /\ r.b.current_file = Head(queue)[1]
                         /\ r.b.current_duration = Head(queue)[2]
                         /\ r.b.playback_start_time = clock
                    ELSE r.result = None /\ r.b.current_file = None)
    /\ [][returned' # returned =>
             /\ Playing => clock - playback_start_time >= current_duration + buffer_time
             /\ queue # <<>>
             /\ returned' = Append(returned, Head(queue)[1])
             /\ queue' = Tail(queue)]_vars

\* the second item was returned at time 2, after the first one's duration
\* and the margin of 1 had run out, and a third item waits for its turn
C23_Witness ==
    /\ buffer_time = 1
    /\ Len(returned) = 2
    /\ Playing
    /\ playback_start_time = 2
    /\ clock = 2
    /\ current_duration = 1
    /\ queue # <<>>

\* the job was in the hands of a worker process when that process died
LostOnDeadWorker(j) ==
    \E p \in 1 .. Len(procs) :
        procs[p].st = "crashed" /\ procs[p].job # QNone /\ procs[p].job.job_id = j

\* C24: in a started pool that is not shut down, where worker processes may
\* die, every accepted job eventually has a Result unless it was in the
\* hands of a worker that died or no worker is left alive; and no job that
\* a dead worker held ever gets a Result.
C24_CrashIsolation ==
    /\ \A j \in 0 .. (MaxJobs - 1) :
           (job_counter > j) ~>
               (j \in JobIdsOf(Created) \/ LostOnDeadWorker(j) \/ AllProcsDead)
    /\ [](\A j \in 0 .. (MaxJobs - 1) : LostOnDeadWorker(j) => j \notin JobIdsOf(Created))

\* the first worker died with job 0 in hand and the second worker has
\* answered the two jobs accepted after that
C24_Witness ==
    /\ procs[1].st = "crashed"
    /\ LostOnDeadWorker(0)
    /\ IsAlive(2)
    /\ JobIdsOf(Created) = {1, 2}
    /\ \A i \in 1 .. Len(Created) : Created[i].worker_id = 1

\* the results on rvc_results_queue that answer sentence i
ResultsFor(i) == {k \in 1 .. Len(rvc_results_queue) : rvc_results_queue[k].i = i}

\* C25: whenever processing_complete is set, rvc_results_queue holds exactly
\* one result for every sentence index of the request.
C25_OneResultPerSentence ==
    processing_complete =>
        /\ Len(rvc_results_queue) = MaxSentences
        /\ \A i \in SentenceIds : Cardinality(ResultsFor(i)) = 1

\* the buffer after add_with_position(PathOf(0), 0) on buffer b
AfterAddAtZero(b, f) ==
    MoveNextPendingToQueue(
        [b EXCEPT !.pending_files =
            DictPut(@, 0, <<PathOf(0), StoredDuration(f.exists, f.readable, f.fileDur)>>)])

\* C26: whatever the buffer holds, clear() leaves no current item, an empty
\* ready queue, an empty pending map and next_position 0, and after it
\* the item added at position 0 is returned by the next get_next at once,
\* whatever was playing before.
C26_ClearDropsAllState ==
    LET c == OrderedClear(BufState)
    IN /\ c.current_file = None
       /\ c.queue = <<>>
       /\ c.pending_files = EmptyDict
       /\ c.next_position = 0
       /\ \A f \in FileStates :
              OrderedGetNext(AfterAddAtZero(c, f), clock).result = PathOf(0)

\* the first item was returned and is still within its pacing delay when
\* the buffer is cleared; the item then added at position 0 is returned in
\* the same instant
C26_Witness ==
    /\ cleared
    /\ buffer_time = 1
    /\ clock = 0
    /\ returned = <<PathOf(0), PathOf(0)>>

\* the monitor has unloaded a worker with this id: a thread started for it
\* is no longer in the records
Unloaded(w) ==
    /\ w \notin DOMAIN rvc_workers
    /\ \E t \in 1 .. Len(threads) : threads[t].worker_id = w

\* C27: the get_rvc_worker call that follows the unloading of a worker id
\* starts a new thread and records it with a new, empty job queue, a set
\* active event and last_used equal to the time of the call; the threads
\* started before are left as they were.
C27_FreshAfterUnload ==
    [][\A w \in WorkerIds :
         (Unloaded(w) /\ w \in DOMAIN rvc_workers') =>
             LET t == rvc_workers'[w].thread
             IN /\ t = Len(threads) + 1
                /\ Len(threads') = t
                /\ \A u \in 1 .. Len(threads) : threads'[u] = threads[u]
                /\ rvc_job_queues'[w] = t
                /\ threads'[t].q = <<>>
                /\ threads'[t].st = "get"
                /\ rvc_active'[w] = t
                /\ threads'[t].active
                /\ rvc_workers'[w].last_used = mgrClock
                /\ fresh'[w]]_vars

\* worker 0 was unloaded by the monitor (its first thread got the sentinel)
\* and has been created again with a second thread
C27_Witness ==
    /\ Len(threads) = 2
    /\ \/ threads[1].st = "exited"
       \/ \E k \in 1 .. Len(threads[1].q) : threads[1].q[k] = "stop"
    /\ 0 \in DOMAIN rvc_workers
    /\ rvc_workers[0].thread = 2
    /\ rvc_job_queues[0] = 2
    /\ threads[2].active
    /\ fresh[0]

\* the units for which the submitter has submitted a pool job
SubmittedUnits == {i \in Units : jobOut[i] # None}

\* the units whose synthesis has been done and succeeded
SynthesisedUnits == {i \in Units : i < prodI /\ i \notin ttsRaised}

\* C28: the submitter submits one pool job per submitted unit and only for
\* units whose synthesis succeeded; it ends only when the producer has set
\* its event and the hand-off queue is empty; and once it has ended the
\* submitted units are exactly the units whose synthesis succeeded, so
\* submitted_count is their number.
C28_SubmitterExact ==
    /\ [](/\ SubmittedUnits \subseteq SynthesisedUnits
          /\ submitted_count = Cardinality(SubmittedUnits)
          /\ job_counter = submitted_count)
    /\ [](subDone =>
             /\ prodI = num_sentences
             /\ SubmittedUnits = Units \ ttsRaised
             /\ submitted_count = Cardinality(Units \ ttsRaised))
    /\ [][(subDone' /\ ~subDone) =>
             (tts_complete_event /\ tts_to_rvc_queue = <<>>)]_vars
    /\ [][\A i \in Units :
             (jobOut'[i] # jobOut[i]) =>
                 /\ jobOut[i] = None
                 /\ job_counter' = job_counter + 1
                 /\ submitted_count' = submitted_count + 1]_vars

\* the submitter has ended after a run in which the second unit failed in
\* synthesis: two jobs were submitted, for the first and the third unit
C28_Witness ==
    /\ subDone
    /\ ttsRaised = {1}
    /\ SubmittedUnits = {0, 2}
    /\ submitted_count = 2

\* worker w is recorded, its active flag is clear and its last use is more
\* than the unload delay ago
IdleLongerThanDelay(w) ==
    /\ unload_delay > 0
    /\ w \in DOMAIN rvc_workers
    /\ ~threads[rvc_active[w]].active
    /\ mgrClock - rvc_workers[w].last_used > unload_delay

\* the sentinel stands on the queue of thread t, or t has taken it
SentinelPut(t) ==
    \/ threads[t].st = "exited"
    \/ \E k \in 1 .. Len(threads[t].q) : threads[t].q[k] = "stop"

\* worker w is recorded and in use again: its active flag is set (by a
\* get_rvc_worker call or by its thread taking a job) or its last_used is
\* recent (refreshed by get_rvc_worker or mark_rvc_worker_idle)
UsedAgain(w) ==
    /\ w \in DOMAIN rvc_workers
    /\ \/ threads[rvc_active[w]].active
       \/ mgrClock - rvc_workers[w].last_used <= unload_delay

\* C29: with a delay above 0, a worker that is idle and was last used more
\* than the delay ago is eventually unloaded by the monitor, unless it is
\* used again before that; it leaves that condition in no other way. The
\* monitor puts the sentinel and deletes the worker's three records while
\* it holds manager_lock without a break, and the records of a worker are
\* always removed together.
C29_IdleWorkerEventuallyUnloaded ==
    /\ \A w \in WorkerIds :
           IdleLongerThanDelay(w) ~> (w \notin DOMAIN rvc_workers \/ UsedAgain(w))
    /\ [][\A w \in WorkerIds :
             (IdleLongerThanDelay(w) /\ w \in DOMAIN rvc_workers') =>
                 \/ IdleLongerThanDelay(w)'
                 \/ threads'[rvc_active'[w]].active
                 \/ rvc_workers'[w].last_used > rvc_workers[w].last_used]_vars
    /\ [](mon = "join" => manager_lock /\ SentinelPut(rvc_job_queues[Head(monTodo)]))
    /\ [](DOMAIN rvc_job_queues = DOMAIN rvc_workers /\ DOMAIN rvc_active = DOMAIN rvc_workers)
    /\ [][\A w \in WorkerIds :
             (w \in DOMAIN rvc_workers /\ w \notin DOMAIN rvc_workers') =>
                 /\ mon = "join" /\ manager_lock /\ manager_lock'
                 /\ SentinelPut(rvc_job_queues[w])]_vars

\* the worker has done a job, was marked idle and has been unloaded by the
\* monitor: its thread has taken the sentinel and the lock is free again
C29_Witness ==
    /\ unload_delay = 1
    /\ Unloaded(0)
    /\ Len(threads) = 1
    /\ threads[1].st = "exited"
    /\ ~threads[1].active
    /\ ~manager_lock

\* C30: conversion does not wait for the end of the synthesis pass: as soon
\* as an item is on the hand-off queue the submitter can take it, a worker
\* at the job queue can take a submitted job and a worker with a job in hand
\* can finish it, whether or not the producer has finished; so there are
\* runs in which a job is submitted and answered while the producer is
\* still synthesising a later unit.
C30_ConversionOverlapsSynthesis ==
    /\ (~subDone /\ tts_to_rvc_queue # <<>>)
           => ENABLED (SubmitterGet /\ UNCHANGED otherThanPipe)
    /\ \A p \in 1 .. Len(procs) :
           /\ (procs[p].st = "get" /\ job_queue # <<>>)
                  => ENABLED (WorkerGet(p) /\ UNCHANGED <<pipeVars, otherThanPipe>>)
           /\ procs[p].st = "busy"
                  => ENABLED (WorkerProcess(p, FALSE) /\ UNCHANGED <<pipeVars, otherThanPipe>>)

\* the job of the first unit has been converted successfully while the
\* producer is at work on the second unit
C30_Witness ==
    /\ prodI = 1
    /\ ~tts_complete_event
    /\ submitted_count = 1
    /\ Len(Created) = 1
    /\ Created[1].job_id = 0
    /\ Created[1].success
    /\ Created[1].output_path = jobOut[0]

\* AudioBufferQueue.is_empty(), inherited by OrderedAudioBufferQueue
is_empty(b) == Len(b.queue) = 0 /\ b.current_file = None

\* C38: is_empty() is true only when no added payload remains unreturned: it
\* is never true while the pending map still holds a payload.
C38_EmptyMeansNothingPending ==
    is_empty(BufState) => DOMAIN pending_files = {}

\* C39: every key of the pending map is strictly greater than next_position.
C39_PendingKeysAhead ==
    \A k \in DOMAIN pending_files : k > next_position

\* C31: a get_rvc_worker call starts a thread only for an id that has no
\* record, so calls for an id that follow each other with no unload between
\* them spawn one thread, and every caller is handed the channel recorded
\* for the id; whenever manager_lock is free the record, the channel and
\* the active flag of an id are all present or all absent, and they belong
\* to the same thread.
C31_OneUnitPerCreate ==
    /\ [](~manager_lock =>
             /\ DOMAIN rvc_job_queues = DOMAIN rvc_workers
             /\ DOMAIN rvc_active = DOMAIN rvc_workers
             /\ \A w \in DOMAIN rvc_workers :
                    /\ rvc_job_queues[w] = rvc_workers[w].thread
                    /\ rvc_active[w] = rvc_workers[w].thread
                    /\ threads[rvc_workers[w].thread].worker_id = w)
    /\ [][Len(threads') # Len(threads) =>
             /\ Len(threads') = Len(threads) + 1
             /\ ~manager_lock
             /\ threads'[Len(threads')].worker_id \notin DOMAIN rvc_workers
             /\ rvc_workers'[threads'[Len(threads')].worker_id].thread = Len(threads')]_vars
    /\ [][\A w \in WorkerIds :
             (w \in DOMAIN rvc_workers /\ w \in DOMAIN rvc_workers') =>
                 rvc_workers'[w].thread = rvc_workers[w].thread]_vars
    /\ [][\A t \in held' \ held :
             LET w == threads'[t].worker_id
             IN w \in DOMAIN rvc_job_queues' /\ rvc_job_queues'[w] = t]_vars

\* a second get_rvc_worker call for worker 0 was made at the time of the
\* first one, while the monitor waits for the lock: one thread exists and
\* the caller holds its channel
C31_Witness ==
    /\ unload_delay = 1
    /\ mgrClock = 0
    /\ mon = "lock"
    /\ Len(threads) = 1
    /\ 0 \in DOMAIN rvc_workers
    /\ ~fresh[0]
    /\ held = {1}
    /\ threads[1].q = <<>>
    /\ threads[1].active

\* threads of worker w that have not ended, other than a thread that
\* waits at job_queue.get with its None next (it ends as soon as it runs)
LiveThreads(w) ==
    {t \in 1 .. Len(threads) :
        /\ threads[t].worker_id = w
        /\ threads[t].st # "exited"
        /\ ~(threads[t].st = "get" /\ threads[t].q # <<>> /\ Head(threads[t].q) = "stop")}

\* C36: at most one thread that has not ended (and is not just about to
\* take its None) exists per managed worker id at any time, also after the
\* id was unloaded and created again.
C36_OneLiveThreadPerId ==
    \A w \in WorkerIds : Cardinality(LiveThreads(w)) <= 1

\* C33: WorkerManager.shutdown() always returns once it is called, whatever
\* the worker threads do (ended, busy in a job, waiting for manager_lock in
\* mark_rvc_worker_idle) and also when the monitor holds manager_lock at the
\* time of the call.
C33_ShutdownReturns ==
    mgr_shutdown_event ~> shut = "returned"

\* shutdown() has returned although the worker is still busy in its job,
\* and the monitor has ended
C33_Witness ==
    /\ shut = "returned"
    /\ mon = "stopped"
    /\ unload_delay = 1
    /\ Len(threads) = 1
    /\ threads[1].st = "busy"
    /\ threads[1].q # <<>> /\ Head(threads[1].q) = "stop"

\* C32: the first accepted job gets id 0 and every accepted job gets the id
\* that follows the previous one, so the ids are non-negative and never
\* repeat; get_status().jobs_submitted counts the accepted jobs (it starts
\* at 0, grows by one with every accepted job and changes in no other
\* step); no job payload equals the None that shutdown() puts on the queue.
C32_JobIdsCountAccepted ==
    /\ [](/\ GetStatus.jobs_submitted >= 0
          /\ \A i, j \in 1 .. Len(job_queue) :
                 (i # j /\ job_queue[i] # QNone /\ job_queue[j] # QNone)
                     => job_queue[i].job_id # job_queue[j].job_id
          /\ \A i \in 1 .. Len(job_queue) :
                 job_queue[i] # QNone =>
                     job_queue[i].job_id \in 0 .. GetStatus.jobs_submitted - 1
          /\ \A id \in 0 .. MaxJobs, path \in PoolOutPaths : RVCJob(id, path) # QNone)
    /\ [][IF Len(JobItems(job_queue')) > Len(JobItems(job_queue))
          THEN /\ Len(JobItems(job_queue')) = Len(JobItems(job_queue)) + 1
               /\ job_queue'[Len(job_queue')].job_id = GetStatus.jobs_submitted
               /\ GetStatus'.jobs_submitted = GetStatus.jobs_submitted + 1
               /\ submitRet' = "Ok"
          ELSE GetStatus'.jobs_submitted = GetStatus.jobs_submitted]_vars

\* two jobs were accepted and wait on the job queue together with a None
\* put by shutdown()
C32_Witness ==
    /\ GetStatus.jobs_submitted = 2
    /\ Len(JobItems(job_queue)) = 2
    /\ Len(job_queue) > 2
    /\ job_queue[1] = RVCJob(0, "out")
    /\ job_queue[2] = RVCJob(1, "out")
    /\ job_queue[3] = QNone

\* C34: a handler call that submitted a job and whose get_result returned a
\* Result has received the Result of the job it submitted itself.
C34_CallerGetsOwnResult ==
    \A c \in DOMAIN callers :
        (callers[c].pc = "done" /\ callers[c].got # <<>>)
            => callers[c].got[1].job_id = callers[c].job_id

\* the ids of the jobs the running process() call has submitted
JobIdsOfThisCall == (job_counter - submitted_count) .. (job_counter - 1)

\* C35: in every process() call on one pipeline, each Result the call has
\* collected belongs to a job submitted in that same call, and (when no
\* synthesis of the call failed) each successful one is attached to the
\* unit its job was submitted for.
C35_ResultsOfThisCallOnly ==
    ppc \in {"collect", "done"} =>
        /\ \A j \in 1 .. Len(delivered) : delivered[j].job_id \in JobIdsOfThisCall
        /\ (ppc = "done" /\ ttsRaised = {}) =>
               \A j \in 1 .. Len(delivered) :
                   delivered[j].success =>
                       \E i \in Units : /\ jobOut[i] = delivered[j].output_path
                                        /\ results[i].rvc_path = jobOut[i]

\* C37: in a pool that start() has (re)started, no worker of the running
\* pool leaves its job loop unless a shutdown() of that pool is under way:
\* the flag and the None items of an earlier shutdown() end no worker.
C37_RestartedWorkersStay ==
    [][\A p \in ProcessesOf(workers) :
          (procs[p].st \in {"loop", "get"} /\ procs'[p].st = "exited")
              => ctl = "shut_join"]_vars
=============================================================================
